---- MODULE Spec2Model ----
(***************************************************************************)
(* UKFuelTracker: the ingest pipeline.                                     *)
(*                                                                         *)
(*   - the web ingest cycle: POST /api/save (app/api/save/route.ts) and    *)
(*     GitHubStorage (lib/github-storage.ts): fetch of every enabled       *)
(*     retailer, saveBulkData, saveCurrentData, shouldArchiveData,         *)
(*     archiveData;                                                        *)
(*   - the collection script (fetch-and-save script): fetchRetailerData    *)
(*     with its retry loop, main with its batches and its save loop.       *)
(*                                                                         *)
(* The store (the GitHub contents API behind Octokit) is the environment:  *)
(* a get answers the record and its revision token (sha) or 404, a put to  *)
(* an existing path is accepted only with the token stored for it, a put   *)
(* to a fresh path only without a token, and every call may fail.          *)
(*                                                                         *)
(* Time is counted in hours.  Prices are counted in tenths of a penny, so  *)
(* that 0.5p is 5 and the code's "more than 1p" is "more than 10".         *)
(***************************************************************************)
EXTENDS Integers, Sequences, FiniteSets, TLC

VARIABLES
    env,        \* what the sources may serve and how many cycles may overlap
    now,        \* the clock, in hours
    current,    \* store: data/current/<slug>.json, by slug
    archive,    \* store: data/archive/.../<slug>-<time>.json, a set of entries
    pc,         \* web cycle: position of each POST handler
    fetched,    \* web cycle: the fetch promises of a cycle, by index
    results,    \* web cycle: the results array of a cycle
    task,       \* web cycle: the saveBulkData promise of a cycle and retailer
    response,   \* web cycle: the JSON response of a cycle
    prior,      \* history: the current records when the cycle started
    obs,        \* history: what the save of a cycle and retailer did
    main,       \* script: position and locals of main
    src,        \* script: the fetchRetailerData call of each enabled retailer
    collected,  \* script: the results array of main
    query,      \* query: the inputs, locals and response of one GET /api/stations
    cheapest    \* the same of one GET /api/stations/cheapest

webVars == <<pc, fetched, results, task, response, prior, obs>>
storeVars == <<current, archive>>
scriptVars == <<main, src, collected>>
vars == <<env, now, current, archive, pc, fetched, results, task, response, prior, obs,
          main, src, collected, query, cheapest>>

----------------------------------------------------------------------------
(* Bounds of the model *)

\* the clock advances in steps of TickHours up to MaxTime
TickHours == 12
MaxTime == 24
\* the length of the long station lists a source may serve
NumStations == 20

ClockValues == {t \in 0..MaxTime : t % TickHours = 0}

----------------------------------------------------------------------------
(* Configuration and data *)

RETAILERS ==
    << [name |-> "Asda", enabled |-> TRUE],
       [name |-> "Shell", enabled |-> FALSE],
       [name |-> "Tesco", enabled |-> TRUE] >>

Names == {RETAILERS[i].name : i \in DOMAIN RETAILERS}

IsEnabled(r) == r.enabled

\* RETAILERS.filter(r => r.enabled)
EnabledRetailers == SelectSeq(RETAILERS, IsEnabled)

EnabledNames == {EnabledRetailers[i].name : i \in DOMAIN EnabledRetailers}

\* retailer.toLowerCase().replace(/\s+/g, '-')
Slug(name) ==
    CASE name = "Asda" -> "asda"
      [] name = "Shell" -> "shell"
      [] name = "Tesco" -> "tesco"
      [] name = "Ascona Group" -> "ascona-group"
      [] name = "BP" -> "bp"
      [] name = "Esso Tesco Alliance" -> "esso-tesco-alliance"
      [] name = "JET Retail UK" -> "jet-retail-uk"
      [] name = "Karan Retail Ltd" -> "karan-retail-ltd"

AllNames == {"Asda", "Shell", "Tesco", "Ascona Group", "BP", "Esso Tesco Alliance",
             "JET Retail UK", "Karan Retail Ltd"}

Slugs == {Slug(n) : n \in AllNames}

\* a last_updated that is missing from the payload, and one that Date cannot parse
Absent == -1
Unparsable == -2

Station(id, prices) == [site_id |-> id, prices |-> prices]

BaseStations(n) == [i \in 1..n |-> Station(i, [E10 |-> 1400])]

\* the first k stations of the list with other prices
WithPrices(list, k, prices) ==
    [i \in DOMAIN list |-> IF i <= k THEN Station(list[i].site_id, prices) ELSE list[i]]

NoData == [last_updated |-> Absent, stations |-> << >>]

\* the station lists of a source that is watched closely
RichLists ==
    { << >>,
      BaseStations(NumStations),
      WithPrices(BaseStations(NumStations), 1, [E10 |-> 1405]),
      WithPrices(BaseStations(NumStations), 1, [E10 |-> 1420]),
      WithPrices(BaseStations(NumStations), 2, [E10 |-> 1420]),
      BaseStations(NumStations + 1),
      WithPrices(BaseStations(NumStations), 2, [E10 |-> 1400, E5 |-> 0]) }

PlainLists == { BaseStations(1), WithPrices(BaseStations(1), 1, [E10 |-> 1420]) }

\* a stations array whose only entry has prices and no site_id
StationsWithoutId == << Station(Absent, [E10 |-> 1400]) >>

\* the station lists a source serves, by the name the environment gives them
ListsOf(kind) ==
    CASE kind = "rich" -> RichLists
      [] kind = "plain" -> PlainLists
      [] kind = "one" -> {BaseStations(1)}
      [] kind = "malformed" -> {BaseStations(1), StationsWithoutId}
      [] kind = "none" -> {}

FailureKinds == {"throw", "status", "html", "badjson", "nostations"}

\* the answers a source may give to one GET at time t
Responses(name, t) ==
    { [kind |-> k, body |-> NoData] : k \in env.failures[name] }
    \cup
    { [kind |-> "json", body |-> [last_updated |-> lu, stations |-> st]] :
        lu \in env.stamps[name] \cup {u \in ClockValues : u <= t},
        st \in ListsOf(env.lists[name]) }

----------------------------------------------------------------------------
(* POST /api/save: the fetch of one retailer *)

Failure(name, msg) ==
    [retailer |-> name, success |-> FALSE, hasData |-> FALSE, data |-> NoData,
     stationCount |-> 0, error |-> msg]

Success(name, data) ==
    [retailer |-> name, success |-> TRUE, hasData |-> TRUE, data |-> data,
     stationCount |-> Len(data.stations), error |-> ""]

NoResult == Failure("", "")

Pending == [status |-> "pending", value |-> NoResult]
Fulfilled(v) == [status |-> "fulfilled", value |-> v]
Rejected(msg) == [status |-> "rejected", value |-> Failure("", msg)]

\* the body of the try block: what it returns, or the message of what it throws
FetchBody(rc, resp, t) ==
    IF resp.kind = "throw" THEN Failure(rc.name, "fetch failed")
    ELSE IF resp.kind = "status" THEN Failure(rc.name, "HTTP")
    ELSE IF resp.kind = "html" THEN Failure(rc.name, "Expected JSON")
    ELSE IF resp.kind = "badjson" THEN Failure(rc.name, "Unexpected token")
    ELSE IF resp.kind = "nostations"
         THEN Failure(rc.name, "Invalid data format: missing stations array")
    ELSE Success(rc.name,
                 [last_updated |-> IF resp.body.last_updated = Absent
                                   THEN t ELSE resp.body.last_updated,
                  stations |-> resp.body.stations])

\* a faulty variant: the catch block is missing, so a failure rejects the promise
FetchTaskRejects(rc, resp, t) ==
    IF FetchBody(rc, resp, t).success
    THEN Fulfilled(FetchBody(rc, resp, t))
    ELSE Rejected(FetchBody(rc, resp, t).error)

\* the async callback of fetchPromises: its catch turns every throw into a result
FetchTask(rc, resp, t) == Fulfilled(FetchBody(rc, resp, t))

\* fetchResults.forEach((result, index) => ...)
AssembleResults(settled) ==
    [i \in DOMAIN settled |->
        IF settled[i].status = "fulfilled"
        THEN settled[i].value
        ELSE Failure(RETAILERS[i].name, settled[i].value.error)]

----------------------------------------------------------------------------
(* GitHubStorage: the store and the archive decision *)

NoSha == 0

NoFile == [exists |-> FALSE, sha |-> NoSha, data |-> NoData]

\* what a put leaves at the path: the content under a fresh revision token
Written(file, data) == [exists |-> TRUE, sha |-> file.sha + 1, data |-> data]

\* createOrUpdateFileContents: a create carries no sha, an update the stored one
PutAccepted(file, sha) == IF file.exists THEN sha = file.sha ELSE sha = NoSha

\* data/archive/yyyy/MM/dd/<slug>-HH-mm-ss.json
ArchivePath(retailer, data) == <<Slug(retailer), data.last_updated>>

ArchivePaths == {e.path : e \in archive}

\* a faulty variant: the put of archiveData carries the sha of the file at the path,
\* so the store accepts it and replaces the file
ArchivePutReplaces(path) == TRUE

\* archiveData: createOrUpdateFileContents without sha, which the store accepts only
\* when no file is at the path
ArchivePutAccepted(path) == path \notin ArchivePaths

\* the archive after an accepted put of data at path
ArchiveWritten(path, data) ==
    {e \in archive : e.path # path} \cup {[path |-> path, data |-> data]}

Abs(x) == IF x < 0 THEN -x ELSE x

First(S) == CHOOSE i \in S : \A j \in S : i <= j

\* one turn of the loop over newData.stations: whether changedStations++ runs
StationChanged(existingStations, newStation) ==
    LET found == {i \in DOMAIN existingStations :
                    existingStations[i].site_id = newStation.site_id}
    IN  IF found = {} THEN TRUE
        ELSE LET existingStation == existingStations[First(found)]
             IN  \E fuelType \in DOMAIN newStation.prices :
                    \/ fuelType \notin DOMAIN existingStation.prices
                    \/ existingStation.prices[fuelType] = 0
                    \/ Abs(newStation.prices[fuelType]
                           - existingStation.prices[fuelType]) > 10

ChangedStations(existingData, newData) ==
    Cardinality({i \in DOMAIN newData.stations :
                    StationChanged(existingData.stations, newData.stations[i])})

\* (changedStations / totalStations) > 0.05; 0 / 0 is NaN, which is not > 0.05
SignificantChange(existingData, newData) ==
    /\ Len(newData.stations) > 0
    /\ ChangedStations(existingData, newData) * 100 > 5 * Len(newData.stations)

\* hoursSinceUpdate >= 24; an unparsable date makes it NaN, which is not >= 24
Stale(existingData, t) ==
    /\ existingData.last_updated # Unparsable
    /\ t - existingData.last_updated >= 24

\* shouldArchiveData after getCurrentData answered: existing is what it found
ArchiveDecision(existing, newData, t) ==
    IF ~existing.exists THEN TRUE
    ELSE IF Stale(existing.data, t) THEN TRUE
    ELSE SignificantChange(existing.data, newData)

\* getCurrentData(retailer)[slug], the listing or the read of the file failing or not
ExistingData(outcome, retailer) ==
    IF outcome = "readError" THEN NoFile ELSE current[Slug(retailer)]

\* shouldArchiveData: its catch answers false when getCurrentData throws
ShouldArchiveData(outcome, retailer, newData, t) ==
    IF outcome = "listError" THEN FALSE
    ELSE ArchiveDecision(ExistingData(outcome, retailer), newData, t)

----------------------------------------------------------------------------
(* The web ingest cycle *)

Cycles == {"c1", "c2"}

Running == {c \in Cycles : pc[c] \in {"fetch", "save"}}

NoTask == [pc |-> "off", sha |-> NoSha]

\* read/readSha: what the getContent of saveCurrentData answered; put: how its
\* put ended, sha: the token it carried, existed/stored: the record then in the store
NoObs == [read |-> "none", readSha |-> NoSha,
          put |-> "none", sha |-> NoSha, existed |-> FALSE, stored |-> NoSha,
          storeOk |-> TRUE, decision |-> "none", archived |-> FALSE]

NoResponse == [status |-> 0, savedToGitHub |-> FALSE, totalRetailers |-> 0,
               successfulFetches |-> 0, failedFetches |-> 0, totalStations |-> 0,
               results |-> << >>]

\* the entry of results for a retailer
ResultOf(rs, name) == rs[First({i \in DOMAIN rs : rs[i].retailer = name})]

HasResult(rs, name) == \E i \in DOMAIN rs : rs[i].retailer = name

\* results.filter(result => result.success && result.data)
Successful(rs) == {rs[i].retailer : i \in {j \in DOMAIN rs : rs[j].success /\ rs[j].hasData}}

RECURSIVE SumStations(_)
SumStations(rs) ==
    IF rs = << >> THEN 0
    ELSE (IF Head(rs).success THEN Head(rs).stationCount ELSE 0) + SumStations(Tail(rs))

\* the summary and the results of the response
Summary(rs) ==
    [status |-> 200,
     savedToGitHub |-> TRUE,
     totalRetailers |-> Len(rs),
     successfulFetches |-> Cardinality({i \in DOMAIN rs : rs[i].success}),
     failedFetches |-> Len(rs) - Cardinality({i \in DOMAIN rs : rs[i].success}),
     totalStations |-> SumStations(rs),
     results |-> [i \in DOMAIN rs |->
                    [retailer |-> rs[i].retailer, success |-> rs[i].success,
                     stationCount |-> rs[i].stationCount, error |-> rs[i].error]]]

\* the clock
Tick ==
    /\ now + env.tick <= env.horizon
    /\ now' = now + env.tick
    /\ UNCHANGED <<cheapest, query, env, storeVars, webVars, scriptVars>>

----------------------------------------------------------------------------
(* The collection script: configuration, fetchRetailerData, the batches *)

\* the number of enabled retailers the script is run with
NumSources == 4

\* the step of the clock, in hours, while the script runs
ScriptTickHours == 3

\* the script's RETAILERS: its first six entries and its disabled one
ScriptRetailers ==
    << [name |-> "Ascona Group", enabled |-> TRUE],
       [name |-> "Asda", enabled |-> TRUE],
       [name |-> "BP", enabled |-> TRUE],
       [name |-> "Esso Tesco Alliance", enabled |-> TRUE],
       [name |-> "JET Retail UK", enabled |-> TRUE],
       [name |-> "Karan Retail Ltd", enabled |-> TRUE],
       [name |-> "Shell", enabled |-> FALSE] >>

\* const enabledRetailers = RETAILERS.filter(r => r.enabled)
enabledRetailers == SubSeq(SelectSeq(ScriptRetailers, IsEnabled), 1, NumSources)

maxRetries == 3

batchSize == 3

\* the ways one attempt may fail: the fetch rejects, the timeout aborts it, a status
\* that is not 2xx, a content type that is not JSON, a body that does not parse, a
\* body without a stations array
AttemptFailures(k) ==
    IF k = 1 THEN {"network", "timeout", "status", "html", "badjson", "nostations"}
    ELSE {"status"}

\* the sources that may send their headers and never finish their body
Stalls(k) == k = 1

\* a faulty variant: one AbortController serves every request
ControllerShared(k, attempt) == <<0, 0>>

\* const controller = new AbortController(), in the loop: one per call and attempt
ControllerOf(k, attempt) == <<k, attempt>>

\* a faulty variant: the delay is awaited before every attempt
DelayBeforeAlways(attempt) == TRUE

\* if (attempt === 1) ... else { await new Promise(resolve => setTimeout(resolve, 2000)) }
DelayBefore(attempt) == attempt # 1

\* the snapshot a source of the script serves
ScriptData == [last_updated |-> 0, stations |-> BaseStations(1)]

\* tries: the fetch calls issued; waited: the attempts a retry delay was awaited
\* before; settled: how the promise of the call ended; rank: the place of the call
\* among the calls of its batch, in the order they settled; timers: the attempts
\* whose timeout is armed
NoCall == [pc |-> "idle", attempt |-> 0, lastError |-> "", tries |-> 0,
           waited |-> {}, settled |-> "pending", result |-> NoResult, rank |-> 0,
           timers |-> {}]

\* setTimeout(() => controller.abort(), 30000) and fetch(retailer.url, { signal })
IssueFetch(call) ==
    [call EXCEPT !.pc = "fetch", !.tries = @ + 1, !.timers = @ \cup {call.attempt}]

\* the request of the call is under way: its headers or its body are awaited
Outstanding(call) == call.pc \in {"fetch", "body", "hung"}

\* the top of one turn of the retry loop: the delay, or the fetch at once
EnterAttempt(call, attempt) ==
    IF DelayBefore(attempt)
    THEN [call EXCEPT !.pc = "wait", !.attempt = attempt,
                      !.waited = @ \cup {attempt}]
    ELSE IssueFetch([call EXCEPT !.attempt = attempt])

\* the attempt in flight ends: the return of the try block, or the catch block and
\* the next turn of the loop, or the return after the loop
EndAttempt(call, name, outcome) ==
    IF outcome = "ok"
    THEN [call EXCEPT !.pc = "done", !.settled = "fulfilled",
                      !.result = Success(name, ScriptData)]
    ELSE IF call.attempt + 1 <= maxRetries
    THEN EnterAttempt([call EXCEPT !.lastError = outcome], call.attempt + 1)
    ELSE [call EXCEPT !.pc = "done", !.lastError = outcome, !.settled = "fulfilled",
                      !.result = Failure(name, outcome)]

\* the batch that starts at offset i: enabledRetailers.slice(i, i + batchSize)
BatchOf(i) == {k \in DOMAIN enabledRetailers : i < k /\ k <= i + batchSize}

\* a faulty variant: the delay is awaited after every batch
MoreBatchesAlways(i) == TRUE

\* if (i + batchSize < enabledRetailers.length)
MoreBatches(i) == i + batchSize < Len(enabledRetailers)

\* the sources whose fetchRetailerData call is running
InFlight == {k \in DOMAIN src : src[k].pc \in {"wait", "fetch", "body", "hung"}}

\* i: the offset of the batch; batches: the batches started; delays: the inter-batch
\* delays awaited; cur: the position of the save loop
NoMain == [pc |-> "idle", i |-> 0, batches |-> 0, delays |-> 0,
           cur |-> 0, sha |-> NoSha, savedCount |-> 0, archivedCount |-> 0,
           exit |-> -1]

\* the calls of the batch at offset i that have settled
SettledIn(i) == {j \in BatchOf(i) : src[j].settled # "pending"}

\* a faulty variant: each call pushes its result when it settles, so the values come
\* in the order of completion
RECURSIVE BatchValuesAsSettled(_, _)
BatchValuesAsSettled(i, k) ==
    IF k > Len(enabledRetailers) \/ k > i + batchSize THEN << >>
    ELSE LET at == {j \in BatchOf(i) : src[j].rank = k - i}
         IN  (IF at = {} THEN << >> ELSE <<src[CHOOSE j \in at : TRUE].result>>)
             \o BatchValuesAsSettled(i, k + 1)

\* batchResults.forEach: the fulfilled values of the batch, in the order of the batch
RECURSIVE BatchValues(_, _)
BatchValues(i, k) ==
    IF k > Len(enabledRetailers) \/ k > i + batchSize THEN << >>
    ELSE (IF src[k].settled = "fulfilled" THEN <<src[k].result>> ELSE << >>)
         \o BatchValues(i, k + 1)

\* batch.map(retailer => fetchRetailerData(retailer)): every call of the batch runs
\* to its first await
StartBatch(calls, i) ==
    [k \in DOMAIN calls |-> IF k \in BatchOf(i) THEN EnterAttempt(calls[k], 1)
                            ELSE calls[k]]

\* a call whose result main has taken: its locals are gone, and the timeouts it
\* left armed have no request to act on
Taken(calls, i) ==
    [k \in DOMAIN calls |-> IF k \in BatchOf(i)
                            THEN [NoCall EXCEPT !.pc = "done", !.rank = calls[k].rank]
                            ELSE calls[k]]

\* i += batchSize and the test of the loop: the next batch, or the save loop
LoopStep(m) ==
    IF m.i + batchSize < Len(enabledRetailers)
    THEN [m EXCEPT !.pc = "batch", !.i = @ + batchSize, !.batches = @ + 1]
    ELSE [m EXCEPT !.pc = "save", !.i = @ + batchSize, !.cur = 1]

\* the calls after LoopStep
LoopCalls(calls, i) ==
    IF i + batchSize < Len(enabledRetailers)
    THEN StartBatch(calls, i + batchSize)
    ELSE calls

\* main is called: the first batch starts
MainStart ==
    /\ main.pc = "idle"
    /\ main' = [main EXCEPT !.pc = "batch", !.i = 0, !.batches = 1]
    /\ src' = StartBatch(src, 0)
    /\ UNCHANGED <<cheapest, query, env, now, storeVars, webVars, collected>>

\* the retry delay of a call elapses: the fetch of the attempt is issued
RetryDelayElapsed(k) ==
    /\ src[k].pc = "wait"
    /\ src' = [src EXCEPT ![k] = IssueFetch(src[k])]
    /\ UNCHANGED <<cheapest, query, env, now, storeVars, webVars, main, collected>>

\* a call that has settled takes its place in the order of completion
Ranked(call) ==
    IF call.settled = "pending" THEN call
    ELSE [call EXCEPT !.rank = Cardinality(SettledIn(main.i)) + 1]

\* the fetch of a call rejects (no connection): the catch block; the timeout of the
\* attempt stays armed, clearTimeout is not reached
FetchRejects(k) ==
    /\ src[k].pc = "fetch"
    /\ "network" \in AttemptFailures(k)
    /\ src' = [src EXCEPT ![k] =
                 Ranked(EndAttempt(src[k], enabledRetailers[k].name, "network"))]
    /\ UNCHANGED <<cheapest, query, env, now, storeVars, webVars, main, collected>>

\* what the headers of source k may be: a status that is not 2xx, a content type that
\* is not JSON, or the start of a body, which the source then finishes or not
HeaderOutcomes(k) ==
    {"body"} \cup (AttemptFailures(k) \cap {"status", "html"})
             \cup (IF Stalls(k) THEN {"stall"} ELSE {})

\* the fetch of a call resolves: clearTimeout, the checks of the status and of the
\* content type, then await response.json()
HeadersArrive(k) ==
    /\ src[k].pc = "fetch"
    /\ \E outcome \in HeaderOutcomes(k) :
          LET cleared == [src[k] EXCEPT !.timers = @ \ {src[k].attempt}]
          IN  src' = [src EXCEPT ![k] =
                        IF outcome = "body" THEN [cleared EXCEPT !.pc = "body"]
                        ELSE IF outcome = "stall" THEN [cleared EXCEPT !.pc = "hung"]
                        ELSE Ranked(EndAttempt(cleared, enabledRetailers[k].name,
                                               outcome))]
    /\ UNCHANGED <<cheapest, query, env, now, storeVars, webVars, main, collected>>

\* response.json() settles: the data and its check, or the throw of the parse
BodyEnds(k) ==
    /\ src[k].pc = "body"
    /\ \E outcome \in {"ok"} \cup (AttemptFailures(k) \cap {"badjson", "nostations"}) :
          src' = [src EXCEPT ![k] =
                    Ranked(EndAttempt(src[k], enabledRetailers[k].name, outcome))]
    /\ UNCHANGED <<cheapest, query, env, now, storeVars, webVars, main, collected>>

\* the timeout armed in attempt t of call k fires: controller.abort() ends every
\* request under way that bears the signal of that controller
TimerFires(k, t) ==
    /\ t \in src[k].timers
    /\ (src[k].pc = "fetch" /\ src[k].attempt = t) => "timeout" \in AttemptFailures(k)
    /\ src' = [j \in DOMAIN src |->
                 LET call == IF j = k THEN [src[j] EXCEPT !.timers = @ \ {t}]
                             ELSE src[j]
                 IN  IF /\ Outstanding(call)
                        /\ ControllerOf(j, call.attempt) = ControllerOf(k, t)
                     THEN Ranked(EndAttempt(call, enabledRetailers[j].name, "timeout"))
                     ELSE call]
    /\ UNCHANGED <<cheapest, query, env, now, storeVars, webVars, main, collected>>

\* Promise.allSettled(batchPromises) resolves: the results are pushed, and the delay
\* is awaited or the loop goes on at once
BatchSettled ==
    /\ main.pc = "batch"
    /\ \A k \in BatchOf(main.i) : src[k].settled # "pending"
    /\ collected' = collected \o BatchValues(main.i, main.i + 1)
    /\ IF MoreBatches(main.i)
       THEN /\ main' = [main EXCEPT !.pc = "delay", !.delays = @ + 1]
            /\ src' = Taken(src, main.i)
       ELSE /\ main' = LoopStep(main)
            /\ src' = LoopCalls(Taken(src, main.i), main.i)
    /\ UNCHANGED <<cheapest, query, env, now, storeVars, webVars>>

\* the inter-batch delay elapses
BatchDelayElapsed ==
    /\ main.pc = "delay"
    /\ main' = LoopStep(main)
    /\ src' = LoopCalls(src, main.i)
    /\ UNCHANGED <<cheapest, query, env, now, storeVars, webVars, collected>>

\* const successfulResults = results.filter(r => r.success)
successfulResults == SelectSeq(collected, LAMBDA r : r.success)

\* the store calls of the script that may fail, by the position of the result
ScriptStoreFailures(j) == IF j <= 2 THEN {"read", "put", "archive"} ELSE {}

\* the save loop moves to the next result, or ends
NextResult(m) ==
    IF m.cur + 1 <= Len(successfulResults)
    THEN [m EXCEPT !.pc = "save", !.cur = @ + 1, !.sha = NoSha]
    ELSE [m EXCEPT !.pc = "summary", !.cur = @ + 1, !.sha = NoSha]

\* no successful result: the save loop has no turn
SaveNothing ==
    /\ main.pc = "save"
    /\ main.cur > Len(successfulResults)
    /\ main' = [main EXCEPT !.pc = "summary"]
    /\ UNCHANGED <<cheapest, query, env, now, storeVars, webVars, src, collected>>

\* the script's saveCurrentData: getContent of the current file
ScriptGetSha ==
    /\ main.pc = "save"
    /\ main.cur <= Len(successfulResults)
    /\ \E fails \in {FALSE} \cup {"read" \in ScriptStoreFailures(main.cur)} :
          main' = IF fails THEN NextResult(main)
                  ELSE [main EXCEPT !.pc = "put",
                           !.sha = current[Slug(successfulResults[main.cur].retailer)].sha]
    /\ UNCHANGED <<cheapest, query, env, now, storeVars, webVars, src, collected>>

\* the script's shouldArchiveData: return hour % 6 === 0
ScriptShouldArchive(t) == t % 6 = 0

\* the script's saveCurrentData: createOrUpdateFileContents, then savedCount++ and
\* shouldArchiveData
ScriptPut ==
    /\ main.pc = "put"
    /\ \E fails \in {FALSE} \cup {"put" \in ScriptStoreFailures(main.cur)} :
          LET r == successfulResults[main.cur]
              file == current[Slug(r.retailer)]
              accepted == ~fails /\ PutAccepted(file, main.sha)
          IN  /\ current' = IF accepted
                            THEN [current EXCEPT ![Slug(r.retailer)] = Written(file, r.data)]
                            ELSE current
              /\ main' = IF ~accepted THEN NextResult(main)
                         ELSE IF ScriptShouldArchive(now)
                         THEN [main EXCEPT !.pc = "archive", !.savedCount = @ + 1]
                         ELSE NextResult([main EXCEPT !.savedCount = @ + 1])
    /\ UNCHANGED <<cheapest, query, env, now, archive, webVars, src, collected>>

\* the script's archiveData, which logs a failed put and returns; archivedCount++
ScriptArchive ==
    /\ main.pc = "archive"
    /\ \E fails \in {FALSE} \cup {"archive" \in ScriptStoreFailures(main.cur)} :
          LET r == successfulResults[main.cur]
              path == ArchivePath(r.retailer, r.data)
              accepted == ~fails /\ ArchivePutAccepted(path)
          IN  archive' = IF accepted THEN ArchiveWritten(path, r.data) ELSE archive
    /\ main' = NextResult([main EXCEPT !.archivedCount = @ + 1])
    /\ UNCHANGED <<cheapest, query, env, now, current, webVars, src, collected>>

\* const failureRate = (results.length - successfulResults.length) / results.length
TooManyFailures ==
    /\ Len(collected) > 0
    /\ (Len(collected) - Len(successfulResults)) * 2 > Len(collected)

\* the summary is logged; process.exit(1) if failureRate > 0.5
Finish ==
    /\ main.pc = "summary"
    /\ main' = [main EXCEPT !.pc = "exited", !.exit = IF TooManyFailures THEN 1 ELSE 0]
    /\ UNCHANGED <<cheapest, query, env, now, storeVars, webVars, src, collected>>

NextScript ==
    \/ Tick
    \/ MainStart
    \/ \E k \in DOMAIN enabledRetailers : RetryDelayElapsed(k)
    \/ \E k \in DOMAIN enabledRetailers : FetchRejects(k)
    \/ \E k \in DOMAIN enabledRetailers : HeadersArrive(k)
    \/ \E k \in DOMAIN enabledRetailers : BodyEnds(k)
    \/ \E k \in DOMAIN enabledRetailers : \E t \in 1..maxRetries : TimerFires(k, t)
    \/ BatchSettled
    \/ BatchDelayElapsed
    \/ SaveNothing
    \/ ScriptGetSha
    \/ ScriptPut
    \/ ScriptArchive
    \/ Finish

----------------------------------------------------------------------------
(* The query GET /api/stations: values, text and distance *)

\* what parseFloat gives for text that is no number, and arithmetic on undefined
NaN == -3
\* a parameter searchParams.get does not find, a JSON null
Null == -4
\* a parameter given with no text: ?lat=
Empty == -5

\* text is a sequence of characters
Upper == <<"A", "B", "C", "D", "E", "F", "G", "H", "I", "J", "K", "L", "M",
           "N", "O", "P", "Q", "R", "S", "T", "U", "V", "W", "X", "Y", "Z">>
Lower == <<"a", "b", "c", "d", "e", "f", "g", "h", "i", "j", "k", "l", "m",
           "n", "o", "p", "q", "r", "s", "t", "u", "v", "w", "x", "y", "z">>

LowerChar(ch) ==
    IF \E j \in DOMAIN Upper : Upper[j] = ch
    THEN Lower[CHOOSE j \in DOMAIN Upper : Upper[j] = ch]
    ELSE ch

\* s.toLowerCase()
toLowerCase(s) == [i \in DOMAIN s |-> LowerChar(s[i])]

IsSpace(ch) == ch = " "

\* s.replace(/\s+/g, '')
StripSpaces(s) == SelectSeq(s, LAMBDA ch : ~IsSpace(ch))

\* s.replace(/\s+/g, '-'): every run of whitespace becomes one hyphen
RECURSIVE Hyphenate(_)
Hyphenate(s) ==
    IF s = << >> THEN << >>
    ELSE IF ~IsSpace(Head(s)) THEN <<Head(s)>> \o Hyphenate(Tail(s))
    ELSE IF Len(s) > 1 /\ IsSpace(s[2]) THEN Hyphenate(Tail(s))
    ELSE <<"-">> \o Hyphenate(Tail(s))

\* s.includes(t)
includes(s, t) ==
    \E i \in 0..(Len(s) - Len(t)) : SubSeq(s, i + 1, i + Len(t)) = t

\* s.startsWith(t)
startsWith(s, t) == Len(t) <= Len(s) /\ SubSeq(s, 1, Len(t)) = t

\* the listing of data/current, in the order of the names
SlugOrder == <<"ascona-group", "asda", "bp", "esso-tesco-alliance", "jet-retail-uk",
               "karan-retail-ltd", "shell", "tesco">>

\* the characters of a file name without its .json
NameText(slug) ==
    CASE slug = "ascona-group" -> <<"a", "s", "c", "o", "n", "a", "-", "g", "r", "o", "u", "p">>
      [] slug = "asda" -> <<"a", "s", "d", "a">>
      [] slug = "bp" -> <<"b", "p">>
      [] slug = "esso-tesco-alliance" -> <<"e", "s", "s", "o", "-", "t", "e", "s", "c", "o", "-", "a", "l", "l", "i", "a", "n", "c", "e">>
      [] slug = "jet-retail-uk" -> <<"j", "e", "t", "-", "r", "e", "t", "a", "i", "l", "-", "u", "k">>
      [] slug = "karan-retail-ltd" -> <<"k", "a", "r", "a", "n", "-", "r", "e", "t", "a", "i", "l", "-", "l", "t", "d">>
      [] slug = "shell" -> <<"s", "h", "e", "l", "l">>
      [] slug = "tesco" -> <<"t", "e", "s", "c", "o">>

\* a value in a condition: null, undefined, '', 0 and NaN count as false
Truthy(v) == v \notin {Null, Absent, Empty, NaN, 0}

\* a parameter in a condition: the text "0" counts as true
Given(p) == p \notin {Null, Empty}

\* parseFloat of a parameter
parseFloat(p) == IF p \in {Null, Empty, NaN} THEN NaN ELSE p

\* isNaN(v): the value as a number is NaN (null converts to 0)
isNaN(v) == v \in {NaN, Absent}

\* a value in arithmetic
ToNumber(v) == IF v = Null THEN 0 ELSE IF v \in {Absent, NaN} THEN NaN ELSE v

\* a <= b of numbers: false when either is NaN
Le(a, b) == a # NaN /\ b # NaN /\ a <= b

\* coordinates are counted in steps of GridMiles miles, north and east; over the
\* short ranges of a query the haversine distance is the straight one
GridMiles == 10

\* Math.sqrt of a sum of two squares, in whole numbers
Hypot(x, y) ==
    CHOOSE r \in 0..(Abs(x) + Abs(y)) : r * r <= x * x + y * y /\ x * x + y * y < (r + 1) * (r + 1)

\* calculateDistance, in whole miles
calculateDistance(lat1, lon1, lat2, lon2) ==
    LET a == ToNumber(lat1)
        b == ToNumber(lon1)
        c == ToNumber(lat2)
        d == ToNumber(lon2)
    IN  IF NaN \in {a, b, c, d} THEN NaN
        ELSE Hypot(GridMiles * (c - a), GridMiles * (d - b))

\* a faulty variant: any station with a location object passes
hasLocation(station) == "location" \in DOMAIN station

\* hasValidCoords of the two distance filters
hasValidCoords(station) ==
    /\ "location" \in DOMAIN station
    /\ Truthy(station.location.latitude)
    /\ Truthy(station.location.longitude)
    /\ ~isNaN(station.location.latitude)
    /\ ~isNaN(station.location.longitude)
    /\ station.location.latitude # 0
    /\ station.location.longitude # 0

----------------------------------------------------------------------------
(* The query GET /api/stations: loading and aggregation *)

\* { ...station, retailer: retailerName }
WithRetailer(station, retailerName) ==
    [f \in DOMAIN station \cup {"retailer"} |->
        IF f = "retailer" THEN retailerName ELSE station[f]]

\* a faulty variant: the stations pass untagged
Untagged(stations, retailerName) == stations

\* data.stations.map(station => ({ ...station, retailer: retailerName }))
stationsWithRetailer(stations, retailerName) ==
    [i \in DOMAIN stations |-> WithRetailer(stations[i], retailerName)]

\* new Date(a) > new Date(b): false when either date is invalid
Later(a, b) == a # Unparsable /\ b # Unparsable /\ a > b

\* if (data.last_updated) { if (!lastUpdated || new Date(...) > new Date(...)) ... }
NextLastUpdated(lastUpdated, data) ==
    IF data.last_updated = Absent THEN lastUpdated
    ELSE IF lastUpdated = Null \/ Later(data.last_updated, lastUpdated)
    THEN data.last_updated
    ELSE lastUpdated

Loaded(stations, lastUpdated) == [allStations |-> stations, lastUpdated |-> lastUpdated]

\* the files of a directory that holds what the store holds
Listing(store) ==
    LET Exists(s) == store[s].exists
        names == SelectSeq(SlugOrder, Exists)
    IN  [i \in DOMAIN names |-> [name |-> names[i], data |-> store[names[i]].data]]

\* the local loop: is a file passed over by the retailer parameter
LocalSkips(retailerName, retailer) ==
    /\ retailer # << >>
    /\ ~includes(toLowerCase(NameText(retailerName)), toLowerCase(retailer))

\* getCurrentData: is a file passed over by the retailer parameter
StoreSkips(retailerName, retailer) ==
    /\ retailer # << >>
    /\ ~includes(NameText(retailerName), Hyphenate(toLowerCase(retailer)))

\* for (const file of jsonFiles): files that cannot be read or parsed are passed over
RECURSIVE LoadLocal(_, _, _, _)
LoadLocal(files, retailer, unreadable, acc) ==
    IF files = << >> THEN acc
    ELSE LET file == Head(files)
         IN  IF LocalSkips(file.name, retailer) \/ file.name \in unreadable
             THEN LoadLocal(Tail(files), retailer, unreadable, acc)
             ELSE LoadLocal(Tail(files), retailer, unreadable,
                    Loaded(acc.allStations
                             \o stationsWithRetailer(file.data.stations, file.name),
                           NextLastUpdated(acc.lastUpdated, file.data)))

\* getCurrentData: the entries of its result, in the order they were set
getCurrentData(store, retailer, unreadable) ==
    LET Kept(file) == ~StoreSkips(file.name, retailer) /\ file.name \notin unreadable
    IN  SelectSeq(Listing(store), Kept)

\* for (const [retailerName, data] of Object.entries(githubData))
RECURSIVE LoadEntries(_, _)
LoadEntries(entries, acc) ==
    IF entries = << >> THEN acc
    ELSE LET entry == Head(entries)
         IN  LoadEntries(Tail(entries),
                Loaded(acc.allStations
                         \o stationsWithRetailer(entry.data.stations, entry.name),
                       NextLastUpdated(acc.lastUpdated, entry.data)))

NothingLoaded == Loaded(<< >>, Null)

----------------------------------------------------------------------------
(* The query GET /api/stations: the stored stations and the requests *)

At(lat, lng) == [latitude |-> lat, longitude |-> lng]

\* the prices of the stations a query reads are counted in hundredths of a penny:
\* 14090 is 140.9p, 14999 is 149.99p
QueryStation(id, postcode, prices) ==
    [site_id |-> id, postcode |-> postcode, prices |-> prices]

Located(station, location) ==
    [f \in DOMAIN station \cup {"location"} |->
        IF f = "location" THEN location ELSE station[f]]

AsdaStations ==
    << Located(QueryStation(1, <<"S", "W", "1", "A", " ", "1", "A", "A">>, [E10 |-> 14090, E5 |-> 14999]), At(2, 2)),
       Located(QueryStation(2, <<"E", "C", "1", "A", " ", "1", "B", "B">>, [E10 |-> 13500]), At(3, 3)),
       Located(QueryStation(3, <<"s", "w", "1", "a", "2", "a", "a">>, [E10 |-> 13500, B7 |-> 14500]), At(0, 2)) >>

TescoStations ==
    << Located(QueryStation(1, <<"S", "W", "1", "A", " ", "2", "A", "A">>, [B7 |-> 14500]), At(4, 2)),
       QueryStation(2, <<"E", "C", "1", "A", " ", "1", "B", "B">>, [E10 |-> 0, B7 |-> 14400]),
       Located(QueryStation(3, <<"N", "1", " ", "9", "G", "U">>, [E10 |-> 14090]), At(5, 2)) >>

EssoStations ==
    << Located(QueryStation(1, <<"S", "W", "1", "A", " ", "1", "A", "A">>, [E10 |-> 13990]), At(2, 6)),
       Located(QueryStation(2, <<"E", "C", "1", "A", " ", "1", "B", "B">>, [E10 |-> 14090]), At(NaN, 2)),
       Located(QueryStation(3, <<"E", "C", "1", "A", " ", "1", "B", "B">>, [E10 |-> 14090]), At(2, Null)) >>

JetStations == << Located(QueryStation(1, <<"N", "1", " ", "9", "G", "U">>, [E10 |-> 13500]), At(2, 3)) >>

FileOf(lastUpdated, stations) ==
    Written(NoFile, [last_updated |-> lastUpdated, stations |-> stations])

\* what data/current may hold when a query arrives
QueryStores ==
    { [s \in Slugs |-> NoFile],
      [s \in Slugs |->
          CASE s = "asda" -> FileOf(12, AsdaStations)
            [] s = "esso-tesco-alliance" -> FileOf(24, EssoStations)
            [] s = "tesco" -> FileOf(Absent, TescoStations)
            [] OTHER -> NoFile],
      [s \in Slugs |->
          CASE s = "jet-retail-uk" -> FileOf(Unparsable, JetStations)
            [] s = "tesco" -> FileOf(12, TescoStations)
            [] OTHER -> NoFile] }

\* the answers of api.postcodes.io: no answer, a page that is no JSON, a JSON body
GeocoderAnswer(kind, status, hasResult, lat, lng) ==
    [kind |-> kind, status |-> status, hasResult |-> hasResult,
     latitude |-> lat, longitude |-> lng]

GeocoderAnswers ==
    { GeocoderAnswer("throw", 0, FALSE, Absent, Absent),
      GeocoderAnswer("html", 502, FALSE, Absent, Absent),
      GeocoderAnswer("json", 404, FALSE, Absent, Absent),
      GeocoderAnswer("json", 200, FALSE, Absent, Absent),
      GeocoderAnswer("json", 200, TRUE, 2, 2),
      GeocoderAnswer("json", 200, TRUE, Null, Null),
      GeocoderAnswer("json", 200, TRUE, Absent, Absent) }

NoAnswer == GeocoderAnswer("none", 0, FALSE, Absent, Absent)

\* a request with no parameter, served from the store
NoRequest ==
    [retailer |-> << >>, fuelType |-> "", postcode |-> << >>,
     lat |-> Null, lng |-> Null, maxDistance |-> Null,
     minPrice |-> Null, maxPrice |-> Null, sortBy |-> "distance", limit |-> Null,
     local |-> "none", github |-> "ok", unreadable |-> {}]

\* requests that differ in what is loaded
LoadRequests ==
    { [NoRequest EXCEPT !.retailer = r, !.local = l, !.github = g, !.unreadable = u] :
        r \in {<< >>, <<"a", "s", "d", "a">>, <<"T", "E", "S", "C", "O">>, <<"E", "s", "s", "o", " ", "T", "e", "s", "c", "o">>, <<"j", "e", "t", " ", " ", "r", "e", "t", "a", "i", "l">>},
        l \in {"none", "empty", "files"},
        g \in {"ok", "down"},
        u \in {{}, {"tesco"}} }

\* requests that differ in the place asked for
PlaceRequests ==
    { [NoRequest EXCEPT !.postcode = p, !.lat = lat, !.lng = lng, !.maxDistance = m,
                        !.fuelType = f, !.sortBy = s] :
        p \in {<< >>, <<"s", "w", "1", "a">>, <<"S", "W", "1", "A", " ", "1">>},
        lat \in {Null, Empty, NaN, 0, 2},
        lng \in {Null, NaN, 2},
        m \in {Null, NaN, 0, 20},
        f \in {"", "E10"},
        s \in {"", "distance", "retailer"} }

\* the largest limit asked for
MaxLimit == 2

\* limit: absent, without text, no number, negative, zero, positive
LimitParams == {Null, Empty, NaN, -7, 0} \cup 1..MaxLimit

\* requests that differ in the ranking asked for
RankRequests ==
    { [NoRequest EXCEPT !.fuelType = f, !.sortBy = s, !.limit = n,
                        !.minPrice = lo, !.maxPrice = hi, !.lat = c, !.lng = c] :
        f \in {"", "E10", "B7"},
        s \in {"distance", "price", "retailer", "name"},
        n \in LimitParams,
        lo \in {Null, 14000},
        hi \in {Null, NaN, 14090},
        c \in {Null, 2} }

Requests == LoadRequests \cup PlaceRequests \cup RankRequests

NoPostcodeLocation == [found |-> FALSE, lat |-> Null, lng |-> Null]

NoQuery ==
    [pc |-> "idle", request |-> NoRequest, answer |-> NoAnswer,
     allStations |-> << >>, lastUpdated |-> Null, dataSource |-> "local",
     filteredStations |-> << >>, fueled |-> << >>, sorted |-> << >>,
     postcodeLocation |-> NoPostcodeLocation,
     maxDist |-> Null, status |-> 0, message |-> FALSE, stations |-> << >>,
     priceStats |-> << >>]

----------------------------------------------------------------------------
(* The query GET /api/stations: the handler, step by step *)

otherVars == <<env, now, storeVars, webVars, scriptVars, cheapest>>

\* the request arrives
QueryStart ==
    /\ query.pc = "idle"
    /\ \E r \in Requests : query' = [query EXCEPT !.pc = "load", !.request = r]
    /\ UNCHANGED otherVars

\* the answer when neither the local files nor the store can be read
Unavailable(q) ==
    [q EXCEPT !.pc = "done", !.status = 200, !.message = TRUE, !.stations = << >>]

\* the stations fetched from the store, or the early answer
FromStore(q) ==
    IF q.request.github = "down" THEN Unavailable(q)
    ELSE LET loaded == LoadEntries(getCurrentData(current, q.request.retailer,
                                                  q.request.unreadable),
                                   NothingLoaded)
         IN  [q EXCEPT !.pc = "fuel", !.dataSource = "github",
                       !.allStations = loaded.allStations,
                       !.lastUpdated = loaded.lastUpdated]

\* the stations read from the local files
FromFiles(q) ==
    LET loaded == LoadLocal(Listing(current), q.request.retailer, q.request.unreadable,
                            NothingLoaded)
    IN  [q EXCEPT !.pc = "fuel", !.dataSource = "local",
                  !.allStations = loaded.allStations,
                  !.lastUpdated = loaded.lastUpdated]

\* local files first, the store when there is no directory or no .json file in it
Load ==
    /\ query.pc = "load"
    /\ query' = IF query.request.local = "files" /\ Listing(current) # << >>
                THEN FromFiles(query)
                ELSE FromStore(query)
    /\ UNCHANGED otherVars

HasPrice(station, fuelType) ==
    fuelType \in DOMAIN station.prices /\ station.prices[fuelType] > 0

\* if (fuelType) filter(prices[fuelType] !== undefined && prices[fuelType] > 0)
FuelFiltered(stations, fuelType) ==
    IF fuelType = "" THEN stations
    ELSE SelectSeq(stations, LAMBDA st : HasPrice(st, fuelType))

FuelFilter ==
    /\ query.pc = "fuel"
    /\ LET kept == FuelFiltered(query.allStations, query.request.fuelType)
       IN  query' = [query EXCEPT !.pc = "geocode", !.filteredStations = kept,
                                  !.fueled = kept]
    /\ UNCHANGED otherVars

\* the prefix match of the fallback
PrefixMatches(stations, postcode) ==
    SelectSeq(stations,
              LAMBDA st : startsWith(StripSpaces(toLowerCase(st.postcode)),
                                     StripSpaces(toLowerCase(postcode))))

WithDistance(station, d) ==
    [f \in DOMAIN station \cup {"distance"} |->
        IF f = "distance" THEN d ELSE station[f]]

\* filter(hasValidCoords).map(distance).filter(distance <= maxDist)
WithinDistance(stations, lat, lng, maxDist) ==
    LET valid == SelectSeq(stations, hasValidCoords)
        measured == [i \in DOMAIN valid |->
                        WithDistance(valid[i],
                            calculateDistance(lat, lng, valid[i].location.latitude,
                                              valid[i].location.longitude))]
    IN  SelectSeq(measured, LAMBDA st : Le(st.distance, maxDist))

\* a faulty variant: any JSON answer of status 200 counts
GeocodedLoose(answer) == answer.kind = "json" /\ answer.status = 200

\* postcodeData.status === 200 && postcodeData.result, of a body that parsed
Geocoded(answer) ==
    answer.kind = "json" /\ answer.status = 200 /\ answer.hasResult

\* if (postcode && !lat && !lng)
AsksGeocoder(r) == r.postcode # << >> /\ ~Given(r.lat) /\ ~Given(r.lng)

\* maxDistance ? parseFloat(maxDistance) : the default
MaxDist(r, default) == IF Given(r.maxDistance) THEN parseFloat(r.maxDistance) ELSE default

PostcodeMiles == 15
LocationMiles == 30

\* the postcode is converted and the stations around it kept, or the prefix match
Geocode ==
    /\ query.pc = "geocode"
    /\ IF ~AsksGeocoder(query.request)
       THEN query' = [query EXCEPT !.pc = "location"]
       ELSE \E answer \in GeocoderAnswers :
               LET r == query.request
                   maxDist == MaxDist(r, PostcodeMiles)
               IN  query' =
                     IF Geocoded(answer)
                     THEN [query EXCEPT
                             !.pc = "location", !.answer = answer,
                             !.postcodeLocation = [found |-> TRUE,
                                                   lat |-> answer.latitude,
                                                   lng |-> answer.longitude],
                             !.maxDist = maxDist,
                             !.filteredStations =
                                 WithinDistance(@, answer.latitude, answer.longitude,
                                                maxDist)]
                     ELSE [query EXCEPT
                             !.pc = "location", !.answer = answer,
                             !.filteredStations = PrefixMatches(@, r.postcode)]
    /\ UNCHANGED otherVars

\* if (lat && lng): the stations around the given point
LocationFilter ==
    /\ query.pc = "location"
    /\ LET r == query.request
           maxDist == MaxDist(r, LocationMiles)
       IN  query' =
             IF Given(r.lat) /\ Given(r.lng)
             THEN [query EXCEPT
                     !.pc = "price", !.maxDist = maxDist,
                     !.filteredStations =
                         WithinDistance(@, parseFloat(r.lat), parseFloat(r.lng), maxDist)]
             ELSE [query EXCEPT !.pc = "price"]
    /\ UNCHANGED otherVars

\* price !== undefined && price >= min && price <= max
InPriceRange(station, r) ==
    /\ r.fuelType \in DOMAIN station.prices
    /\ Le(IF Given(r.minPrice) THEN parseFloat(r.minPrice) ELSE 0,
          station.prices[r.fuelType])
    /\ Given(r.maxPrice) => Le(station.prices[r.fuelType], parseFloat(r.maxPrice))

\* if (fuelType && (minPrice || maxPrice))
PriceFilter ==
    /\ query.pc = "price"
    /\ LET r == query.request
       IN  query' =
             IF r.fuelType # "" /\ (Given(r.minPrice) \/ Given(r.maxPrice))
             THEN [query EXCEPT
                     !.pc = "sort",
                     !.filteredStations = SelectSeq(@, LAMBDA st : InPriceRange(st, r))]
             ELSE [query EXCEPT !.pc = "sort"]
    /\ UNCHANGED otherVars

\* the place of an entry in the sorted array: before it come the entries of a
\* smaller key and the earlier entries of the same key
Place(keys, i) ==
    Cardinality({j \in DOMAIN keys : keys[j] < keys[i] \/ (keys[j] = keys[i] /\ j < i)}) + 1

\* a faulty variant: entries of the same key come out in reverse
PlaceUnstable(keys, i) ==
    Cardinality({j \in DOMAIN keys : keys[j] < keys[i] \/ (keys[j] = keys[i] /\ j > i)}) + 1

SortedUnstably(stations, keys) ==
    [p \in DOMAIN stations |->
        stations[CHOOSE i \in DOMAIN stations : PlaceUnstable(keys, i) = p]]

\* Array.prototype.sort with the comparator a - b of the keys
SortedBy(stations, keys) ==
    [p \in DOMAIN stations |-> stations[CHOOSE i \in DOMAIN stations : Place(keys, i) = p]]

\* station.distance || 0
DistanceKey(station) ==
    IF "distance" \in DOMAIN station /\ Truthy(station.distance) THEN station.distance ELSE 0

\* station.prices[fuelType] || 0
PriceKey(station, fuelType) ==
    IF fuelType \in DOMAIN station.prices /\ Truthy(station.prices[fuelType])
    THEN station.prices[fuelType] ELSE 0

\* a.retailer.localeCompare(b.retailer): the names are ordered as the listing is
RetailerKey(station) == CHOOSE i \in DOMAIN SlugOrder : SlugOrder[i] = station.retailer

\* a faulty variant: the order is by price when sort_by is absent
sortByOrPrice(r) == IF r.sortBy = "" THEN "price" ELSE r.sortBy

\* searchParams.get('sort_by') || 'distance'
sortByOf(r) == IF r.sortBy = "" THEN "distance" ELSE r.sortBy

Sort ==
    /\ query.pc = "sort"
    /\ LET r == query.request
           list == query.filteredStations
           sorted ==
             IF ((Given(r.lat) /\ Given(r.lng)) \/ query.postcodeLocation.found)
                  /\ sortByOf(r) = "distance"
             THEN SortedBy(list, [i \in DOMAIN list |-> DistanceKey(list[i])])
             ELSE IF r.fuelType # "" /\ sortByOf(r) = "price"
             THEN SortedBy(list, [i \in DOMAIN list |-> PriceKey(list[i], r.fuelType)])
             ELSE IF sortByOf(r) = "retailer"
             THEN SortedBy(list, [i \in DOMAIN list |-> RetailerKey(list[i])])
             ELSE list
       IN  query' = [query EXCEPT !.pc = "limit", !.filteredStations = sorted,
                                  !.sorted = sorted]
    /\ UNCHANGED otherVars

\* parseInt(searchParams.get('limit') || '0')
parseInt(p) == IF p \in {Null, Empty} THEN 0 ELSE p

\* list.slice(0, n) for a whole number n that is not negative
Slice(list, n) == IF n < Len(list) THEN SubSeq(list, 1, n) ELSE list

\* a faulty variant: the list is cut whether or not the limit is positive
LimitedAlways(list, n) == IF n = NaN \/ n < 0 THEN << >> ELSE Slice(list, n)

\* if (limit > 0) filteredStations.slice(0, limit)
Limited(list, n) == IF n # NaN /\ n > 0 THEN Slice(list, n) ELSE list

\* const fuelTypes = ['E10', 'E5', 'B7', 'SDV']
fuelTypes == <<"E10", "E5", "B7", "SDV">>

\* a faulty variant: every price that is present counts, a price of 0 too
PresentPrices(stations, fuel) ==
    LET with == SelectSeq(stations, LAMBDA st : fuel \in DOMAIN st.prices)
    IN  [i \in DOMAIN with |-> with[i].prices[fuel]]

\* map(s => s.prices[fuel]).filter(price => price !== undefined && price > 0)
PositivePrices(stations, fuel) ==
    LET with == SelectSeq(stations, LAMBDA st : HasPrice(st, fuel))
    IN  [i \in DOMAIN with |-> with[i].prices[fuel]]

Range(f) == {f[i] : i \in DOMAIN f}

RECURSIVE SumOf(_)
SumOf(prices) == IF prices = << >> THEN 0 ELSE Head(prices) + SumOf(Tail(prices))

\* Math.round(x * 10) / 10 of the quotient x = sum / count, prices being counted
\* in hundredths of a penny: the nearest tenth of a penny, a half going up
RoundedAverage(sum, count) == 10 * ((2 * sum + 10 * count) \div (20 * count))

\* { min, max, avg, count } of a list of prices that is not empty
PriceStat(prices) ==
    [min |-> CHOOSE x \in Range(prices) : \A y \in Range(prices) : x <= y,
     max |-> CHOOSE x \in Range(prices) : \A y \in Range(prices) : y <= x,
     avg |-> RoundedAverage(SumOf(prices), Len(prices)),
     count |-> Len(prices)]

\* fuelTypes.forEach: an entry for each fuel that has a price in the list
PriceStats(stations) ==
    LET Priced == {fuelTypes[i] : i \in DOMAIN fuelTypes}
    IN  [fuel \in {f \in Priced : PositivePrices(stations, f) # << >>} |->
            PriceStat(PositivePrices(stations, fuel))]

\* if (limit > 0) slice(0, limit), and the answer
QueryRespond ==
    /\ query.pc = "limit"
    /\ LET list == query.filteredStations
           returned == Limited(list, parseInt(query.request.limit))
       IN  query' = [query EXCEPT !.pc = "done", !.status = 200,
                                  !.filteredStations = returned,
                                  !.stations = returned,
                                  !.priceStats = PriceStats(returned)]
    /\ UNCHANGED otherVars

NextQuery ==
    \/ QueryStart
    \/ Load
    \/ FuelFilter
    \/ Geocode
    \/ LocationFilter
    \/ PriceFilter
    \/ Sort
    \/ QueryRespond

----------------------------------------------------------------------------
(* GET /api/stations/cheapest *)

\* the handler counts in kilometres: a step of the grid in tenths of a kilometre
GridKmTenths == 16 * GridMiles

\* Math.round(calculateDistance(...) * 10) / 10, in tenths of a kilometre
roundedDistance(lat1, lng1, lat2, lng2) ==
    LET a == ToNumber(lat1)
        b == ToNumber(lng1)
        c == ToNumber(lat2)
        d == ToNumber(lng2)
    IN  IF NaN \in {a, b, c, d} THEN NaN
        ELSE (Hypot(2 * GridKmTenths * (c - a), 2 * GridKmTenths * (d - b)) + 1) \div 2

\* searchParams.get('fuel') || 'E10'
fuelTypeOf(r) == IF r.fuel = "" THEN "E10" ELSE r.fuel

\* parseInt(searchParams.get(name) || text) for a default written as text
parseIntOr(p, default) == IF p \in {Null, Empty} THEN default ELSE p

\* parseFloat(searchParams.get(name) || '0')
parseFloatOrZero(p) == IF p \in {Null, Empty} THEN 0 ELSE p

\* parseInt(searchParams.get('max_distance') || '50'), in tenths of a kilometre
maxDistanceOf(r) ==
    IF parseIntOr(r.maxDistance, 50) = NaN THEN NaN ELSE 10 * parseIntOr(r.maxDistance, 50)

\* the largest limit a caller of the ranking asks for
MaxCheapest == 2

NoCheapestRequest ==
    [fuel |-> "", limit |-> Null, lat |-> Null, lng |-> Null, maxDistance |-> Null,
     local |-> "files", unreadable |-> {}]

CheapestRequests ==
    { [NoCheapestRequest EXCEPT !.fuel = f, !.limit = n, !.lat = lat, !.lng = lng,
                                !.maxDistance = m, !.local = l, !.unreadable = u] :
        f \in {"", "B7"},
        n \in {Null, NaN, -1, 0} \cup 1..MaxCheapest,
        lat \in {Null, NaN, 0, 2},
        lng \in {Null, 0, 2},
        m \in {Null, NaN, 0, 40},
        l \in {"none", "files"},
        u \in {{}, {"asda"}} }

NoCheapest ==
    [pc |-> "idle", request |-> NoCheapestRequest, allStations |-> << >>,
     status |-> 0, message |-> FALSE, located |-> FALSE, stations |-> << >>,
     totalFound |-> 0]

cheapestOthers == <<query, env, now, storeVars, webVars, scriptVars>>

\* the request arrives
CheapestStart ==
    /\ cheapest.pc = "idle"
    /\ \E r \in CheapestRequests : cheapest' = [cheapest EXCEPT !.pc = "load", !.request = r]
    /\ UNCHANGED cheapestOthers

\* for (const file of jsonFiles): a file that cannot be read or parsed is passed over
RECURSIVE LoadAll(_, _)
LoadAll(files, unreadable) ==
    IF files = << >> THEN << >>
    ELSE (IF Head(files).name \in unreadable THEN << >>
          ELSE stationsWithRetailer(Head(files).data.stations, Head(files).name))
         \o LoadAll(Tail(files), unreadable)

\* the files of data/current are read, or the early answer is given
CheapestLoad ==
    /\ cheapest.pc = "load"
    /\ cheapest' =
         IF cheapest.request.local = "none" \/ Listing(current) = << >>
         THEN [cheapest EXCEPT !.pc = "done", !.status = 200, !.message = TRUE]
         ELSE [cheapest EXCEPT !.pc = "rank",
                 !.allStations = LoadAll(Listing(current), cheapest.request.unreadable)]
    /\ UNCHANGED cheapestOthers

\* the comparator of the located branch is negative: a is cheaper, or as cheap and
\* nearer by (a.distance || Infinity) - (b.distance || Infinity)
CheaperOrNearer(a, b, fuelType) ==
    \/ a.prices[fuelType] < b.prices[fuelType]
    \/ /\ a.prices[fuelType] = b.prices[fuelType]
       /\ Truthy(a.distance)
       /\ ~Truthy(b.distance) \/ a.distance < b.distance

\* the comparator of the other branch is negative
Cheaper(a, b, fuelType) == a.prices[fuelType] < b.prices[fuelType]

\* Array.prototype.sort with the comparator of the branch: before an entry come the
\* entries the comparator puts first and the earlier entries it holds equal
SortedWith(list, fuelType, located) ==
    LET Before(a, b) == IF located THEN CheaperOrNearer(a, b, fuelType)
                        ELSE Cheaper(a, b, fuelType)
        PlaceOf(i) ==
          Cardinality({j \in DOMAIN list :
                         \/ Before(list[j], list[i])
                         \/ ~Before(list[i], list[j]) /\ j < i}) + 1
    IN  [p \in DOMAIN list |-> list[CHOOSE i \in DOMAIN list : PlaceOf(i) = p]]

\* list.slice(0, n): NaN counts as 0, a negative n counts from the end
SliceTo(list, n) ==
    IF n = NaN THEN << >>
    ELSE IF n < 0 THEN (IF Len(list) + n > 0 THEN SubSeq(list, 1, Len(list) + n) ELSE << >>)
    ELSE Slice(list, n)

\* filter(station => !station.distance || station.distance <= maxDistance)
Nearby(stations, maxDistance) ==
    SelectSeq(stations, LAMBDA st : ~Truthy(st.distance) \/ Le(st.distance, maxDistance))

\* the ranking: fuel filter, distances, distance filter, sort, slice, answer
CheapestRespond ==
    /\ cheapest.pc = "rank"
    /\ LET r == cheapest.request
           fuelType == fuelTypeOf(r)
           limit == parseIntOr(r.limit, 10)
           lat == parseFloatOrZero(r.lat)
           lng == parseFloatOrZero(r.lng)
           stationsWithFuel == SelectSeq(cheapest.allStations, LAMBDA st : HasPrice(st, fuelType))
       IN  IF lat # 0 /\ lng # 0
           THEN IF \E i \in DOMAIN stationsWithFuel : "location" \notin DOMAIN stationsWithFuel[i]
                THEN cheapest' = [cheapest EXCEPT !.pc = "done", !.status = 500,
                                                  !.located = TRUE]
                ELSE LET measured ==
                           [i \in DOMAIN stationsWithFuel |->
                               WithDistance(stationsWithFuel[i],
                                  roundedDistance(lat, lng,
                                                  stationsWithFuel[i].location.latitude,
                                                  stationsWithFuel[i].location.longitude))]
                         nearbyStations ==
                           SortedWith(Nearby(measured, maxDistanceOf(r)), fuelType, TRUE)
                     IN  cheapest' = [cheapest EXCEPT !.pc = "done", !.status = 200,
                                        !.located = TRUE,
                                        !.stations = SliceTo(nearbyStations, limit),
                                        !.totalFound = Len(nearbyStations)]
           ELSE LET sorted == SortedWith(stationsWithFuel, fuelType, FALSE)
                IN  cheapest' = [cheapest EXCEPT !.pc = "done", !.status = 200,
                                   !.stations = SliceTo(sorted, limit),
                                   !.totalFound = Len(sorted)]
    /\ UNCHANGED cheapestOthers

NextCheapest ==
    \/ CheapestStart
    \/ CheapestLoad
    \/ CheapestRespond

\* the record an earlier cycle left: one station, fetched at hour 0
SeedFile == Written(NoFile, [last_updated |-> 0, stations |-> BaseStations(1)])

InitOf(e) ==
    /\ env = e
    /\ now = 0
    /\ current = [s \in Slugs |-> IF s \in e.seeded THEN SeedFile ELSE NoFile]
    /\ archive = {}
    /\ pc = [c \in Cycles |-> "idle"]
    /\ fetched = [c \in Cycles |-> [i \in DOMAIN EnabledRetailers |-> Pending]]
    /\ results = [c \in Cycles |-> << >>]
    /\ task = [c \in Cycles |-> [n \in EnabledNames |-> NoTask]]
    /\ response = [c \in Cycles |-> NoResponse]
    /\ prior = [c \in Cycles |-> [at |-> 0, files |-> current]]
    /\ obs = [c \in Cycles |-> [n \in EnabledNames |-> NoObs]]
    /\ main = NoMain
    /\ src = [k \in DOMAIN enabledRetailers |-> NoCall]
    /\ collected = << >>
    /\ query = NoQuery
    /\ cheapest = NoCheapest

\* POST is called: the fetch promises are created
Start(c) ==
    /\ pc[c] = "idle"
    /\ c = "c1" \/ pc["c1"] # "idle"
    /\ Cardinality(Running) < env.concurrency
    /\ pc' = [pc EXCEPT ![c] = "fetch"]
    /\ prior' = [prior EXCEPT ![c] = [at |-> now, files |-> current]]
    /\ UNCHANGED <<cheapest, query, scriptVars, env, now, storeVars, fetched, results, task, response, obs>>

\* one fetch promise settles
FetchSettle(c, i) ==
    /\ pc[c] = "fetch"
    /\ fetched[c][i].status = "pending"
    /\ \E resp \in Responses(EnabledRetailers[i].name, now) :
          fetched' = [fetched EXCEPT ![c][i] = FetchTask(EnabledRetailers[i], resp, now)]
    /\ UNCHANGED <<cheapest, query, scriptVars, env, now, storeVars, pc, results, task, response, prior, obs>>

\* Promise.allSettled(fetchPromises) resolves; saveBulkData starts its promises
Collect(c) ==
    /\ pc[c] = "fetch"
    /\ \A i \in DOMAIN fetched[c] : fetched[c][i].status # "pending"
    /\ results' = [results EXCEPT ![c] = AssembleResults(fetched[c])]
    /\ task' = [task EXCEPT ![c] =
                  [n \in EnabledNames |->
                     IF n \in Successful(AssembleResults(fetched[c]))
                     THEN [pc |-> "getSha", sha |-> NoSha] ELSE NoTask]]
    /\ pc' = [pc EXCEPT ![c] = "save"]
    /\ UNCHANGED <<cheapest, query, scriptVars, env, now, storeVars, fetched, response, prior, obs>>

DataOf(c, n) == ResultOf(results[c], n).data

\* a faulty variant: the put carries no sha, whatever the read answered
ShaForPutBlind(c, n) == NoSha

\* the sha saveCurrentData passes to the put
ShaForPut(c, n) == task[c][n].sha

\* saveCurrentData: getContent of the current file
GetSha(c, n) ==
    /\ pc[c] = "save"
    /\ task[c][n].pc = "getSha"
    /\ \E fails \in BOOLEAN :
          IF fails
          THEN /\ task' = [task EXCEPT ![c][n].pc = "end"]
               /\ obs' = [obs EXCEPT ![c][n].storeOk = FALSE,
                                     ![c][n].read = "error"]
          ELSE /\ task' = [task EXCEPT ![c][n] =
                             [pc |-> "put", sha |-> current[Slug(n)].sha]]
               /\ obs' = [obs EXCEPT ![c][n].read = IF current[Slug(n)].exists
                                                    THEN "found" ELSE "404",
                                     ![c][n].readSha = current[Slug(n)].sha]
    /\ UNCHANGED <<cheapest, query, scriptVars, env, now, storeVars, pc, fetched, results, response, prior>>

\* a faulty variant: the archive decision is taken whether or not the put threw
AfterPutAlways(accepted) == "check"

\* saveBulkData: shouldArchiveData follows the awaited saveCurrentData inside the
\* try, so a put that threw goes to the catch and the retailer's turn ends
AfterPut(accepted) == IF accepted THEN "check" ELSE "end"

\* saveCurrentData: createOrUpdateFileContents of the current file
PutCurrent(c, n) ==
    /\ pc[c] = "save"
    /\ task[c][n].pc = "put"
    /\ \E fails \in BOOLEAN :
          LET file == current[Slug(n)]
              accepted == ~fails /\ PutAccepted(file, ShaForPut(c, n))
          IN  /\ current' = IF accepted
                            THEN [current EXCEPT ![Slug(n)] = Written(file, DataOf(c, n))]
                            ELSE current
              /\ task' = [task EXCEPT ![c][n].pc = AfterPut(accepted)]
              /\ obs' = [obs EXCEPT ![c][n].existed = file.exists,
                                    ![c][n].stored = file.sha,
                                    ![c][n].sha = ShaForPut(c, n),
                                    ![c][n].put = IF accepted THEN "ok"
                                                  ELSE IF fails THEN "error"
                                                  ELSE "conflict",
                                    ![c][n].storeOk = @ /\ ~fails]
    /\ UNCHANGED <<cheapest, query, scriptVars, env, now, archive, pc, fetched, results, response, prior>>

\* saveBulkData: shouldArchiveData
ShouldArchive(c, n) ==
    /\ pc[c] = "save"
    /\ task[c][n].pc = "check"
    /\ \E outcome \in {"ok", "listError", "readError"} :
          LET yes == ShouldArchiveData(outcome, n, DataOf(c, n), now)
          IN  /\ task' = [task EXCEPT ![c][n].pc = IF yes THEN "archive" ELSE "end"]
              /\ obs' = [obs EXCEPT ![c][n].decision = IF yes THEN "yes" ELSE "no",
                                    ![c][n].storeOk = @ /\ outcome = "ok"]
    /\ UNCHANGED <<cheapest, query, scriptVars, env, now, storeVars, pc, fetched, results, response, prior>>

\* archiveData: format of the date and createOrUpdateFileContents without sha
ArchiveData(c, n) ==
    /\ pc[c] = "save"
    /\ task[c][n].pc = "archive"
    /\ \E fails \in BOOLEAN :
          LET data == DataOf(c, n)
              path == ArchivePath(n, data)
              accepted == /\ data.last_updated # Unparsable
                          /\ ~fails
                          /\ ArchivePutAccepted(path)
          IN  /\ archive' = IF accepted THEN ArchiveWritten(path, data) ELSE archive
              /\ obs' = [obs EXCEPT ![c][n].archived = accepted,
                                    ![c][n].storeOk = @ /\ ~fails]
    /\ task' = [task EXCEPT ![c][n].pc = "end"]
    /\ UNCHANGED <<cheapest, query, scriptVars, env, now, current, pc, fetched, results, response, prior>>

\* saveBulkData resolved: the summary is returned
Respond(c) ==
    /\ pc[c] = "save"
    /\ \A n \in EnabledNames : task[c][n].pc \in {"off", "end"}
    /\ response' = [response EXCEPT ![c] = Summary(results[c])]
    /\ pc' = [pc EXCEPT ![c] = "done"]
    /\ fetched' = [fetched EXCEPT ![c] = [i \in DOMAIN EnabledRetailers |-> Pending]]
    /\ results' = [results EXCEPT ![c] = << >>]
    /\ task' = [task EXCEPT ![c] = [n \in EnabledNames |-> NoTask]]
    /\ UNCHANGED <<cheapest, query, scriptVars, env, now, storeVars, prior, obs>>

Next ==
    \/ Tick
    \/ \E c \in Cycles : Start(c)
    \/ \E c \in Cycles : \E i \in DOMAIN EnabledRetailers : FetchSettle(c, i)
    \/ \E c \in Cycles : Collect(c)
    \/ \E c \in Cycles : \E n \in EnabledNames : GetSha(c, n)
    \/ \E c \in Cycles : \E n \in EnabledNames : PutCurrent(c, n)
    \/ \E c \in Cycles : \E n \in EnabledNames : ShouldArchive(c, n)
    \/ \E c \in Cycles : \E n \in EnabledNames : ArchiveData(c, n)
    \/ \E c \in Cycles : Respond(c)

\* one cycle at a time, one source watched closely
ArchiveEnv ==
    [concurrency |-> 1,
     tick |-> TickHours,
     seeded |-> {},
     horizon |-> MaxTime,
     lists |-> [n \in Names |-> IF n = "Asda" THEN "rich" ELSE "none"],
     stamps |-> [n \in Names |-> IF n = "Asda" THEN {Absent, Unparsable} ELSE {}],
     failures |-> [n \in Names |-> IF n = "Asda" THEN {} ELSE {"throw"}]]

\* one cycle at a time, every way a source may fail
IsolationEnv ==
    [concurrency |-> 1,
     tick |-> TickHours,
     seeded |-> {},
     horizon |-> 0,
     lists |-> [n \in Names |-> "one"],
     stamps |-> [n \in Names |-> {Absent}],
     failures |-> [n \in Names |-> IF n = "Asda" THEN FailureKinds
                                   ELSE {"throw", "nostations"}]]

\* two overlapping cycles that write the same retailer
RaceEnv(seeded) ==
    [concurrency |-> 2,
     tick |-> TickHours,
     seeded |-> seeded,
     horizon |-> TickHours,
     lists |-> [n \in Names |-> IF n = "Asda" THEN "plain" ELSE "none"],
     stamps |-> [n \in Names |-> {Absent}],
     failures |-> [n \in Names |-> {"throw"}]]

Init == \E e \in {IsolationEnv, RaceEnv({}), RaceEnv({"asda"})} : InitOf(e)

Spec == Init /\ [][Next]_vars

InitArchive == InitOf(ArchiveEnv)

SpecArchive == InitArchive /\ [][Next]_vars

\* each environment alone
SpecIsolation == InitOf(IsolationEnv) /\ [][Next]_vars
\* the collection script alone, over one step of the clock
ScriptEnv ==
    [IsolationEnv EXCEPT !.concurrency = 0, !.tick = ScriptTickHours,
                         !.horizon = ScriptTickHours]

SpecCollect == InitOf(ScriptEnv) /\ [][NextScript]_vars

\* the script under the scheduling of the event loop: a step that can be taken is
\* taken
SpecCollectLive == SpecCollect /\ WF_vars(NextScript)

\* one cycle at a time, a source whose stations may lack their site_id
FormatEnv ==
    [IsolationEnv EXCEPT !.horizon = TickHours,
                         !.lists = [n \in Names |-> IF n = "Asda" THEN "malformed"
                                                    ELSE "none"],
                         !.failures = [n \in Names |-> IF n = "Asda" THEN {"nostations"}
                                                       ELSE {"throw"}]]

SpecFormat == InitOf(FormatEnv) /\ [][Next]_vars

----------------------------------------------------------------------------
(* /api/save: the check of the caller *)

\* `Bearer ${cronSecret}`: an authorization header is its scheme followed by its
\* credentials; the empty sequence is a request without the header
Bearer(secret) == <<"Bearer", secret>>

NoHeader == << >>

\* process.env.CRON_SECRET, "" when it is not set
CronSecrets == {"", "s3cret"}

\* the requests a caller may send: the method and the authorization header
SaveCallers ==
    [method : {"POST", "GET"},
     authorization : {NoHeader, Bearer("s3cret"), Bearer("guess"), <<"s3cret">>}]

\* one cycle at a time, behind one configuration of the secret, called by one caller
AuthEnvs ==
    { FormatEnv @@ [cronSecret |-> k, caller |-> r] : k \in CronSecrets, r \in SaveCallers }

\* request.headers.get('authorization') as POST sees it: GET hands POST a request of
\* its own, which has no headers
authHeader == IF env.caller.method = "GET" THEN NoHeader ELSE env.caller.authorization

\* if (cronSecret && authHeader !== `Bearer ${cronSecret}`)
Denied == env.cronSecret # "" /\ authHeader # Bearer(env.cronSecret)

\* return NextResponse.json({ error: 'Unauthorized' }, { status: 401 })
Unauthorized(c) ==
    /\ pc[c] = "idle"
    /\ c = "c1" \/ pc["c1"] # "idle"
    /\ Cardinality(Running) < env.concurrency
    /\ Denied
    /\ pc' = [pc EXCEPT ![c] = "done"]
    /\ response' = [response EXCEPT ![c] = [NoResponse EXCEPT !.status = 401]]
    /\ UNCHANGED <<cheapest, query, scriptVars, env, now, storeVars, fetched, results, task, prior, obs>>

\* the request passes the check and the cycle starts
Authorized(c) == ~Denied /\ Start(c)

NextAuth ==
    \/ Tick
    \/ \E c \in Cycles : Unauthorized(c)
    \/ \E c \in Cycles : Authorized(c)
    \/ \E c \in Cycles : \E i \in DOMAIN EnabledRetailers : FetchSettle(c, i)
    \/ \E c \in Cycles : Collect(c)
    \/ \E c \in Cycles : \E n \in EnabledNames : GetSha(c, n)
    \/ \E c \in Cycles : \E n \in EnabledNames : PutCurrent(c, n)
    \/ \E c \in Cycles : \E n \in EnabledNames : ShouldArchive(c, n)
    \/ \E c \in Cycles : \E n \in EnabledNames : ArchiveData(c, n)
    \/ \E c \in Cycles : Respond(c)

SpecAuth == (\E e \in AuthEnvs : InitOf(e)) /\ [][NextAuth]_vars

SpecRace == (\E e \in {RaceEnv({}), RaceEnv({"asda"})} : InitOf(e)) /\ [][Next]_vars

\* a query arrives at a store that holds what earlier cycles wrote
InitQuery ==
    /\ env = IsolationEnv
    /\ now = 0
    /\ current \in QueryStores
    /\ archive = {}
    /\ pc = [c \in Cycles |-> "idle"]
    /\ fetched = [c \in Cycles |-> [i \in DOMAIN EnabledRetailers |-> Pending]]
    /\ results = [c \in Cycles |-> << >>]
    /\ task = [c \in Cycles |-> [n \in EnabledNames |-> NoTask]]
    /\ response = [c \in Cycles |-> NoResponse]
    /\ prior = [c \in Cycles |-> [at |-> 0, files |-> current]]
    /\ obs = [c \in Cycles |-> [n \in EnabledNames |-> NoObs]]
    /\ main = NoMain
    /\ src = [k \in DOMAIN enabledRetailers |-> NoCall]
    /\ collected = << >>
    /\ query = NoQuery
    /\ cheapest = NoCheapest

SpecQuery == InitQuery /\ [][NextQuery]_vars

\* the same store, asked for its cheapest stations
SpecCheapest == InitQuery /\ [][NextCheapest]_vars

----------------------------------------------------------------------------
(* The archive decision of the web cycle (checked under SpecArchive) *)

\* the save of retailer n in cycle c wrote the current record and no store call failed
SavedCleanly(c, n) == pc[c] = "done" /\ obs[c][n].put = "ok" /\ obs[c][n].storeOk

PriorOf(c, n) == prior[c].files[Slug(n)]

\* the prior snapshot is less than 24 hours old when the cycle starts
PriorFresh(c, n) ==
    /\ PriorOf(c, n).exists
    /\ PriorOf(c, n).data.last_updated # Unparsable
    /\ prior[c].at - PriorOf(c, n).data.last_updated < 24

\* the prior snapshot is at least 24 hours old when the cycle starts
PriorStale(c, n) ==
    /\ PriorOf(c, n).exists
    /\ PriorOf(c, n).data.last_updated # Unparsable
    /\ prior[c].at - PriorOf(c, n).data.last_updated >= 24

\* the snapshot the last cycle wrote for n, read back from the store
NewOf(n) == current[Slug(n)].data

\* cycle c is the last one that ran, it saved n cleanly, and the snapshot it saved
\* has stations and a date that parses
SavedWellFormed(c, n) ==
    /\ SavedCleanly(c, n)
    /\ c = "c2" \/ pc["c2"] = "idle"
    /\ NewOf(n).last_updated # Unparsable
    /\ Len(NewOf(n).stations) > 0

\* material change as the specification words it: the station is absent from the
\* prior snapshot, or one of its prices differs from the prior value by more than 1
MateriallyChanged(priorStations, station) ==
    LET found == {i \in DOMAIN priorStations :
                    priorStations[i].site_id = station.site_id}
    IN  IF found = {} THEN TRUE
        ELSE \E f \in DOMAIN station.prices \cap DOMAIN priorStations[First(found)].prices :
                Abs(station.prices[f] - priorStations[First(found)].prices[f]) > 10

MaterialCount(priorData, newData) ==
    Cardinality({i \in DOMAIN newData.stations :
                    MateriallyChanged(priorData.stations, newData.stations[i])})

\* C1: a cycle that finds no current record for a retailer when it starts, and whose
\* store calls all succeed, decides to archive the snapshot it saved (and so writes
\* the archive entry), whatever that snapshot is.
C1_FirstWriteArchives ==
    \A c \in Cycles : \A n \in EnabledNames :
        (SavedWellFormed(c, n) /\ ~PriorOf(c, n).exists) => obs[c][n].decision = "yes"

\* C2: a cycle that finds a current record at least 24 hours old decides to archive
\* the snapshot it saved, also when that snapshot has no price change.
C2_StaleArchives ==
    \A c \in Cycles : \A n \in EnabledNames :
        (SavedWellFormed(c, n) /\ PriorStale(c, n)) => obs[c][n].decision = "yes"

\* C3: with a prior record less than 24 hours old, a new snapshot of which more than
\* 5% of the stations are materially changed against the prior one is archived.
C3_ChangeArchives ==
    \A c \in Cycles : \A n \in EnabledNames :
        ( /\ SavedWellFormed(c, n)
          /\ PriorFresh(c, n)
          /\ MaterialCount(PriorOf(c, n).data, NewOf(n)) * 100
                > 5 * Len(NewOf(n).stations) )
        => obs[c][n].decision = "yes"

\* every price of the snapshot is a price a fuel is sold at
AllPricesPositive(data) ==
    \A i \in DOMAIN data.stations :
        \A f \in DOMAIN data.stations[i].prices : data.stations[i].prices[f] > 0

\* C4: with a prior record less than 24 hours old and at most 5% of the new
\* snapshot's stations materially changed, no archive entry is written.
C4_QuietNoArchive ==
    \A c \in Cycles : \A n \in EnabledNames :
        ( /\ SavedWellFormed(c, n)
          /\ AllPricesPositive(NewOf(n))
          /\ PriorFresh(c, n)
          /\ MaterialCount(PriorOf(c, n).data, NewOf(n)) * 100
                <= 5 * Len(NewOf(n).stations) )
        => ~obs[c][n].archived

----------------------------------------------------------------------------
(* The guarded write of the current record (checked under Spec) *)

\* C5: a put of saveCurrentData that carries the token it read and is rejected as a
\* conflict is followed by a new read and a new put: the save does not end on the
\* conflict.
C5_ConflictIsRetried ==
    \A c \in Cycles : \A n \in EnabledNames :
        (task[c][n].pc = "end" /\ obs[c][n].sha # NoSha) => obs[c][n].put # "conflict"

\* C6 as stated: a put is accepted only with the token stored for the record, and no
\* put reaches an existing record without a token.
C6_NoPutWithoutToken ==
    \A c \in Cycles : \A n \in EnabledNames :
        (obs[c][n].put # "none" /\ obs[c][n].existed) =>
            /\ obs[c][n].sha # NoSha
            /\ obs[c][n].put = "ok" => obs[c][n].sha = obs[c][n].stored

\* C6 as amended: a put carries exactly the token the read of the same call answered
\* (none when that read found no record), and it is accepted only if the record is
\* still the one that read saw; a put without a token that reaches a record created
\* since is rejected.
C6_PutCarriesReadToken ==
    \A c \in Cycles : \A n \in EnabledNames :
        obs[c][n].put # "none" =>
            /\ obs[c][n].sha = obs[c][n].readSha
            /\ (obs[c][n].sha = NoSha) = (obs[c][n].read = "404")
            /\ obs[c][n].put = "ok" => obs[c][n].stored = obs[c][n].readSha
            /\ (obs[c][n].existed /\ obs[c][n].sha = NoSha) => obs[c][n].put # "ok"

\* both races happen: a put without a token meets a record created since its read,
\* and a put with a token meets a record updated since its read
C6_Witness ==
    /\ \E c \in Cycles : /\ obs[c]["Asda"].put = "conflict"
                         /\ obs[c]["Asda"].existed
                         /\ obs[c]["Asda"].sha = NoSha
                         /\ \E d \in Cycles : obs[d]["Asda"].put = "ok"
    \/ \E c \in Cycles : /\ obs[c]["Asda"].put = "conflict"
                         /\ obs[c]["Asda"].sha # NoSha
                         /\ \E d \in Cycles : obs[d]["Asda"].put = "ok" /\ obs[d]["Asda"].existed

\* the current write of retailer n failed in cycle c
WriteFailed(c, n) == obs[c][n].read = "error" \/ obs[c][n].put \in {"conflict", "error"}

\* C7: a retailer whose current write failed is reported as failed by the response.
C7_WriteFailureReported ==
    \A c \in Cycles : \A n \in EnabledNames :
        (pc[c] = "done" /\ WriteFailed(c, n)) =>
            /\ ~ResultOf(response[c].results, n).success
            /\ ~response[c].savedToGitHub

----------------------------------------------------------------------------
(* The isolation of failures in the web cycle (checked under Spec) *)

\* the results of cycle c: of its response once it answered
CycleResults(c) == IF pc[c] = "done" THEN response[c].results ELSE results[c]

\* the put of cycle c for retailer n was accepted: the current record is the
\* snapshot the cycle fetched, unless a later write replaced it (the response of the
\* cycle no longer carries the snapshot)
HoldsWriteOf(c, n) ==
    /\ obs[c][n].put = "ok"
    /\ current[Slug(n)].exists
    /\ current[Slug(n)].sha > obs[c][n].stored
    /\ (pc[c] = "save" /\ current[Slug(n)].sha = obs[c][n].stored + 1)
          => current[Slug(n)].data = ResultOf(results[c], n).data

\* C8: whatever subset of the enabled retailers fails in its fetch, its validation or
\* its store write, a cycle has exactly one result per enabled retailer, each with the
\* name of that retailer, and every retailer whose fetch succeeded and whose own
\* write did not fail has its current record written.
C8_FailuresAreIsolated ==
    \A c \in Cycles :
        pc[c] \in {"save", "done"} =>
            /\ Len(CycleResults(c)) = Len(EnabledRetailers)
            /\ \A i \in DOMAIN EnabledRetailers :
                  CycleResults(c)[i].retailer = EnabledRetailers[i].name
            /\ \A n \in EnabledNames :
                  ( /\ pc[c] = "done" \/ task[c][n].pc = "end"
                    /\ ResultOf(CycleResults(c), n).success
                    /\ ~WriteFailed(c, n) )
                      => HoldsWriteOf(c, n)

\* one cycle answered with a failed fetch of Asda and Tesco written, another with a
\* failed write of Asda and Tesco written
C8_Witness ==
    \E c, d \in Cycles :
        /\ pc[c] = "done" /\ pc[d] = "done"
        /\ ~ResultOf(response[c].results, "Asda").success
        /\ HoldsWriteOf(c, "Tesco")
        /\ ResultOf(response[d].results, "Asda").success
        /\ WriteFailed(d, "Asda")
        /\ HoldsWriteOf(d, "Tesco")

----------------------------------------------------------------------------
(* The retry loop and the batches of the script (checked under SpecCollect) *)

\* the call of source k has settled and main has not yet taken its result
Settled(k) == src[k].pc = "done" /\ src[k].settled # "pending"

\* C9: fetchRetailerData issues at most 3 fetches, awaits the retry delay before
\* attempts 2 and 3 and before no other, stops at the first attempt that succeeds, and
\* after 3 failed attempts is fulfilled with one result with success false and the
\* last error; its promise is never rejected.
C9_RetryLoop ==
    \A k \in DOMAIN enabledRetailers :
        /\ src[k].tries <= 3
        /\ src[k].waited = {a \in {2, 3} : a <= src[k].attempt}
        /\ src[k].pc = "fetch" => src[k].tries = src[k].attempt
        /\ src[k].settled # "rejected"
        /\ (src[k].settled = "pending") = (src[k].result = NoResult)
        /\ src[k].settled = "fulfilled" =>
              /\ src[k].pc = "done"
              /\ src[k].result.retailer = enabledRetailers[k].name
              /\ src[k].tries = src[k].attempt
              /\ ~src[k].result.success =>
                    /\ src[k].tries = 3
                    /\ src[k].result.error = src[k].lastError

\* in one batch, one call failed three times and another succeeded at its second
\* attempt
C9_Witness ==
    \E j, k \in DOMAIN enabledRetailers :
        /\ Settled(j) /\ ~src[j].result.success
        /\ src[j].tries = 3 /\ src[j].waited = {2, 3}
        /\ src[j].lastError = "timeout"
        /\ Settled(k) /\ src[k].result.success
        /\ src[k].tries = 2 /\ src[k].waited = {2}

\* the number of the batch of source k, from 1
BatchNo(k) == ((k - 1) \div 3) + 1

\* the number of batches of the run
TotalBatches == (Len(enabledRetailers) + 2) \div 3

\* C10: the script fetches in consecutive batches of 3: never more than 3 calls are
\* running, a source of a later batch starts only when every source of the batches
\* before has given its result, and the inter-batch delay is awaited once between two
\* batches, with no call running, and not after the last batch.
C10_Batches ==
    /\ Cardinality(InFlight) <= 3
    /\ \A j, k \in DOMAIN enabledRetailers :
          (BatchNo(j) < BatchNo(k) /\ src[k].pc # "idle") =>
              /\ src[j].pc = "done"
              /\ Len(collected) >= j
              /\ collected[j].retailer = enabledRetailers[j].name
    /\ \A k \in DOMAIN enabledRetailers :
          src[k].pc # "idle" => BatchNo(k) <= main.batches
    /\ main.pc = "batch" => main.delays = main.batches - 1
    /\ main.pc = "delay" =>
          /\ main.delays = main.batches
          /\ main.batches < TotalBatches
          /\ InFlight = {}
    /\ main.pc \in {"save", "put", "archive", "summary", "exited"} =>
          /\ main.batches = TotalBatches
          /\ main.delays = TotalBatches - 1
          /\ InFlight = {}
          /\ Len(collected) = Len(enabledRetailers)

\* the second batch is running after one delay, the three results of the first taken
C10_Witness ==
    /\ main.pc = "batch"
    /\ main.batches = 2
    /\ main.delays = 1
    /\ InFlight # {}
    /\ Len(collected) = 3
    /\ \A k \in BatchOf(0) : src[k].pc = "done"

----------------------------------------------------------------------------
(* The order of the results (checked under SpecCollect) *)

\* C11: in whatever order the concurrent fetches complete, the i-th result of the
\* results array belongs to the i-th enabled source, and once the batches are over
\* there is one result for every enabled source.
C11_ResultsInConfigOrder ==
    /\ Len(collected) <= Len(enabledRetailers)
    /\ \A i \in DOMAIN collected : collected[i].retailer = enabledRetailers[i].name
    /\ main.pc \notin {"idle", "batch", "delay"} => Len(collected) = Len(enabledRetailers)

\* the first batch completed in the reverse of the configuration order, and all the
\* results are in
C11_Witness ==
    /\ main.pc = "save"
    /\ Len(collected) = Len(enabledRetailers)
    /\ src[1].rank = 3 /\ src[2].rank = 2 /\ src[3].rank = 1

----------------------------------------------------------------------------
(* The timeout of a fetch attempt (checked under SpecCollectLive, SpecCollect) *)

\* C12: every run of the script returns its results and ends, also when a source
\* never answers or never finishes its body: each attempt, the reading of the body
\* included, is ended by the timeout.
C12_CycleReturns == <>(main.pc = "exited")

\* in this step the attempt of call k that was under way ended on an abort
AbortedNow(k) ==
    /\ Outstanding(src[k])
    /\ src'[k].lastError = "timeout"
    /\ ~src'[k].result.success
    /\ src'[k].attempt # src[k].attempt \/ src'[k].pc = "done"

\* in this step the timeout armed in attempt t of call k fired late: not while the
\* fetch of that attempt was awaited
FiredLate(k, t) ==
    /\ t \in src[k].timers /\ t \notin src'[k].timers
    /\ collected' = collected
    /\ src[k].attempt # t \/ src[k].pc # "fetch"

\* C13: a timeout that fires aborts only the request of its own attempt: an attempt
\* is ended by an abort only while its fetch is awaited and by its own timer, which no
\* other call notices, and a timer that fires late (after its attempt failed) changes
\* nothing of any call, so later attempts and sibling calls go on.
C13_TimeoutAbortsOwnAttempt ==
    [][ \A k \in DOMAIN src :
          /\ AbortedNow(k) =>
                /\ src[k].pc = "fetch"
                /\ src[k].attempt \in src[k].timers
                /\ src'[k].timers = src[k].timers \ {src[k].attempt}
                /\ \A j \in DOMAIN src \ {k} : src'[j] = src[j]
          /\ \A t \in 1..maxRetries :
                FiredLate(k, t) =>
                    src' = [src EXCEPT ![k].timers = src[k].timers \ {t}]
      ]_vars

\* the fetch of the first attempt of a call was rejected and its timeout has fired
\* since; the second attempt of the call succeeded, and so did a sibling of the batch
\* whose own first attempt had failed
C13_Witness ==
    \E k, j \in BatchOf(0) :
        /\ k # j
        /\ Settled(k) /\ src[k].result.success
        /\ src[k].attempt = 2 /\ src[k].lastError = "network" /\ src[k].timers = {}
        /\ Settled(j) /\ src[j].result.success /\ src[j].attempt = 2

----------------------------------------------------------------------------
(* The degraded cycle (checked under Spec; the script under SpecCollect) *)

\* the response tells its caller that the cycle is degraded: by a field that says
\* so, or by a status that is not 200
Flagged(r) == ("degraded" \in DOMAIN r /\ r.degraded) \/ r.status # 200

\* C14: a cycle in which strictly more than half of the enabled sources failed is
\* reported to its caller as degraded, and one in which half or fewer failed is not.
C14_DegradedIsFlagged ==
    \A c \in Cycles :
        pc[c] = "done" =>
            (Flagged(response[c])
                <=> response[c].failedFetches * 2 > Len(EnabledRetailers))

\* the results of the script that are failures
FailedResults == SelectSeq(collected, LAMBDA r : ~r.success)

\* C14, for the script alone: the exit code is decided after the save loop, and it is
\* 1 exactly when strictly more than half of the enabled sources failed.
C14_ScriptExitCode ==
    /\ main.exit # -1 => main.pc = "exited" /\ main.cur > Len(successfulResults)
    /\ main.pc = "exited" =>
          /\ Len(collected) = Len(enabledRetailers)
          /\ main.exit = 1 <=> Len(FailedResults) * 2 > Len(enabledRetailers)

----------------------------------------------------------------------------
(* The archive (checked under SpecArchive) *)

\* C15: an archive entry once written is never replaced or removed, and no path
\* holds two entries: a put of archiveData to a path that exists is rejected and
\* leaves the entry as it is.
C15_ArchiveAppendOnly ==
    [][ /\ \A e \in archive : e \in archive'
        /\ \A e, f \in archive' : e.path = f.path => e = f
      ]_vars

\* a cycle decided to archive a snapshot whose path is already held by another
\* snapshot: its put was rejected with no other store error, and the entry is as it was
C15_Witness ==
    \E c \in Cycles :
        /\ pc[c] = "save"
        /\ task[c]["Asda"].pc = "end"
        /\ obs[c]["Asda"].decision = "yes"
        /\ obs[c]["Asda"].storeOk
        /\ ~obs[c]["Asda"].archived
        /\ DataOf(c, "Asda").last_updated # Unparsable
        /\ \E e \in archive :
              /\ e.path = ArchivePath("Asda", DataOf(c, "Asda"))
              /\ e.data # DataOf(c, "Asda")

(***************************************************************************)
(* The archive follows the current write                                   *)
(***************************************************************************)

\* the archive entries a step adds or replaces
NewEntries == archive' \ archive

\* C16: in a web cycle the archive decision and the archive write for a retailer
\* happen only after that cycle's put of the retailer's current file was
\* accepted: a retailer whose read or put failed has no decision and no archive
\* write, and every step that adds an archive entry is the archive step of a
\* retailer whose put was accepted in the same cycle.
C16_ArchiveAfterCurrentWrite ==
    [][ /\ \A c \in Cycles : \A n \in EnabledNames :
              /\ (task[c][n].pc \in {"check", "archive"} \/ obs[c][n].decision # "none"
                     \/ obs[c][n].archived) => obs[c][n].put = "ok"
              /\ (obs'[c][n].decision # obs[c][n].decision
                     \/ obs'[c][n].archived # obs[c][n].archived) => obs[c][n].put = "ok"
        /\ \A e \in NewEntries :
              \E c \in Cycles : \E n \in EnabledNames :
                 /\ pc[c] = "save"
                 /\ task[c][n].pc = "archive"
                 /\ obs[c][n].put = "ok"
                 /\ e = [path |-> ArchivePath(n, DataOf(c, n)), data |-> DataOf(c, n)]
      ]_vars

\* a cycle whose put for Asda failed ended Asda's turn while the cycle that wrote
\* its current file went on to archive it
C16_Witness ==
    \E c, d \in Cycles :
        /\ obs[c]["Asda"].put \in {"conflict", "error"}
        /\ task[c]["Asda"].pc = "end"
        /\ obs[c]["Asda"].decision = "none"
        /\ obs[d]["Asda"].put = "ok"
        /\ obs[d]["Asda"].archived

\* the scheduled script (checked under SpecCollect): the archive step is entered
\* only from an accepted put of the same result, whose data the current file holds
C16_ScriptArchiveAfterPut ==
    /\ main.archivedCount <= main.savedCount
    /\ main.pc = "archive" =>
          LET r == successfulResults[main.cur]
          IN  /\ current[Slug(r.retailer)].exists
              /\ current[Slug(r.retailer)].data = r.data
              /\ main.savedCount >= 1

(***************************************************************************)
(* The query (checked under SpecQuery)                                     *)
(***************************************************************************)

\* the snapshots a query read: the files its retailer parameter let through and
\* that could be read, in the order of the listing
SnapshotsRead(q) ==
    LET r == q.request
        Read(file) ==
            /\ file.name \notin r.unreadable
            /\ IF q.dataSource = "local" THEN ~LocalSkips(file.name, r.retailer)
               ELSE ~StoreSkips(file.name, r.retailer)
    IN  SelectSeq(Listing(current), Read)

\* has the query built its list of stations
Aggregated(q) == q.pc \notin {"idle", "load"} /\ ~q.message

RECURSIVE StationsBefore(_, _)
StationsBefore(snapshots, i) ==
    IF i <= 1 THEN 0
    ELSE StationsBefore(snapshots, i - 1) + Len(snapshots[i - 1].data.stations)

\* C17: the list a query aggregates is as long as the station lists of the
\* snapshots it read taken together, and holds, snapshot after snapshot in the
\* order they were read and station after station in the order of the
\* snapshot, each station with the name of its snapshot as its retailer.
C17_AggregateConcatenates ==
    Aggregated(query) =>
        LET read == SnapshotsRead(query)
            all == query.allStations
        IN  /\ Len(all) = StationsBefore(read, Len(read) + 1)
            /\ \A i \in DOMAIN read : \A j \in DOMAIN read[i].data.stations :
                  LET k == StationsBefore(read, i) + j
                  IN  /\ k \in DOMAIN all
                      /\ "retailer" \in DOMAIN all[k]
                      /\ all[k].retailer = read[i].name
                      /\ all[k] = WithRetailer(read[i].data.stations[j], read[i].name)

\* two snapshots of three stations each were read, from the files and past a file
\* that could not be read
C17_Witness ==
    /\ query.pc = "fuel"
    /\ query.dataSource = "local"
    /\ query.request.unreadable = {"tesco"}
    /\ current["tesco"].exists
    /\ Len(SnapshotsRead(query)) = 2
    /\ Len(query.allStations) = 6
    /\ query.allStations[4].retailer = "esso-tesco-alliance"

\* the list aggregated without a retailer parameter
Unfiltered(q) ==
    LoadLocal(Listing(current), << >>, q.request.unreadable, NothingLoaded).allStations

\* the retailer parameter applied to a list already aggregated: the records whose
\* retailer contains the text, whatever the case of the letters
RetailerFiltered(stations, retailer) ==
    SelectSeq(stations,
              LAMBDA st : includes(toLowerCase(NameText(st.retailer)), toLowerCase(retailer)))

\* C18: with a retailer parameter a query aggregates exactly the records, in
\* their order, of the snapshots whose retailer name contains the parameter
\* case-insensitively: the list it loads is the same from the local files and
\* from the store, and the same as the unfiltered list filtered afterwards.
C18_RetailerFilterEquivalent ==
    (Aggregated(query) /\ query.request.retailer # << >>) =>
        LET r == query.request
        IN  /\ query.allStations = RetailerFiltered(Unfiltered(query), r.retailer)
            /\ LoadLocal(Listing(current), r.retailer, r.unreadable, NothingLoaded)
                 = LoadEntries(getCurrentData(current, r.retailer, r.unreadable),
                               NothingLoaded)

\* the local loop alone filters as stated
C18_FilesFilterIsSubstring ==
    (Aggregated(query) /\ query.request.retailer # << >> /\ query.dataSource = "local") =>
        query.allStations = RetailerFiltered(Unfiltered(query), query.request.retailer)

\* a coordinate the geocoder answered that is a number
Numeric(v) == v \notin {Null, Absent, NaN}

\* the geocoder threw, answered no success, or answered no numeric coordinates
GeocoderFailed(answer) ==
    \/ answer.kind \in {"throw", "html"}
    \/ answer.status # 200
    \/ ~answer.hasResult
    \/ ~Numeric(answer.latitude)
    \/ ~Numeric(answer.longitude)

\* the geocoder was asked and the query has gone past its answer
PastGeocoder(q) ==
    /\ q.pc \in {"location", "price", "sort", "limit", "done"}
    /\ ~q.message
    /\ AsksGeocoder(q.request)

\* C19: a query with a postcode and no coordinates whose geocoder threw, answered
\* a non-success status or answered a body without numeric latitude and
\* longitude does not fail: it goes on with exactly the records that passed the
\* fuel filter and whose postcode, without whitespace and in lower case, starts
\* with the postcode asked for, normalised the same way, and it measures and
\* filters by no distance.
C19_GeocoderFailureFallsBack ==
    (PastGeocoder(query) /\ GeocoderFailed(query.answer)) =>
        /\ ~query.postcodeLocation.found
        /\ query.maxDist = Null
        /\ query.pc = "location" =>
              query.filteredStations = PrefixMatches(query.fueled, query.request.postcode)
        /\ query.pc = "done" => query.status = 200

\* the same for the answers the handler does treat as a failure: no answer, a body
\* that is no JSON, a status other than 200, no result
C19_RejectedPostcodeFallsBack ==
    (PastGeocoder(query) /\ ~Geocoded(query.answer)) =>
        /\ ~query.postcodeLocation.found
        /\ query.maxDist = Null
        /\ query.pc = "location" =>
              query.filteredStations = PrefixMatches(query.fueled, query.request.postcode)
        /\ query.pc = "done" => query.status = 200

\* a rejected postcode: of the stations at SW1A and EC1A, sw1a keeps those at SW1A
C19_Scenario ==
    /\ query.pc = "location"
    /\ query.answer.kind = "json" /\ query.answer.status = 404
    /\ query.request.postcode = <<"s", "w", "1", "a">>
    /\ query.request.fuelType = "E10"
    /\ Len(query.fueled) = 7
    /\ Len(query.filteredStations) = 3
    /\ \A i \in DOMAIN query.filteredStations :
          StripSpaces(toLowerCase(query.filteredStations[i].postcode))[1] = "s"

\* a coordinate that is present, a number and not zero
ValidCoordinate(v) == Numeric(v) /\ v # Empty /\ v # 0

\* the point a query measures from: the coordinates given, or those of the postcode
Origin(q) ==
    IF Given(q.request.lat) /\ Given(q.request.lng)
    THEN [lat |-> parseFloat(q.request.lat), lng |-> parseFloat(q.request.lng)]
    ELSE [lat |-> q.postcodeLocation.lat, lng |-> q.postcodeLocation.lng]

\* has the query a location: both coordinates given, or a postcode that was geocoded
Resolved(q) == (Given(q.request.lat) /\ Given(q.request.lng)) \/ q.postcodeLocation.found

\* max_distance as a number, or the default of the kind of location
Radius(q) ==
    IF Given(q.request.maxDistance) THEN parseFloat(q.request.maxDistance)
    ELSE IF Given(q.request.lat) /\ Given(q.request.lng) THEN 30
    ELSE 15

\* C20: when a query has a location, from lat and lng or from a geocoded
\* postcode, every record it returns has a location whose latitude and
\* longitude are present, numbers and not zero, and carries the distance from
\* the query's location to it, which is a number not greater than max_distance,
\* or than 15 miles around a postcode and 30 miles around given coordinates
\* when no max_distance is given.
C20_ReturnedWithinDistance ==
    (query.pc = "done" /\ ~query.message /\ Resolved(query)) =>
        \A i \in DOMAIN query.stations :
            LET st == query.stations[i]
            IN  /\ "location" \in DOMAIN st
                /\ ValidCoordinate(st.location.latitude)
                /\ ValidCoordinate(st.location.longitude)
                /\ "distance" \in DOMAIN st
                /\ st.distance = calculateDistance(Origin(query).lat, Origin(query).lng,
                                                   st.location.latitude,
                                                   st.location.longitude)
                /\ st.distance # NaN
                /\ Radius(query) # NaN
                /\ st.distance <= Radius(query)

\* around given coordinates and with no max_distance, the stations up to 30 miles
\* away are returned, the one at 30 miles included, and neither the station 40
\* miles away nor the nearer ones whose coordinates are zero, missing or no number
C20_Witness ==
    /\ query.pc = "done"
    /\ query.request.lat = 2 /\ query.request.lng = 2
    /\ query.request.maxDistance = Null
    /\ query.request.fuelType = ""
    /\ Len(query.allStations) = 9
    /\ Len(query.stations) = 4
    /\ \E i \in DOMAIN query.stations : query.stations[i].distance = 30
    /\ \E i \in DOMAIN query.allStations :
          /\ "location" \in DOMAIN query.allStations[i]
          /\ query.allStations[i].location.latitude = 0

\* around a geocoded postcode and with no max_distance, the stations up to 15 miles
C20_PostcodeWitness ==
    /\ query.pc = "done"
    /\ query.postcodeLocation = [found |-> TRUE, lat |-> 2, lng |-> 2]
    /\ query.request.maxDistance = Null
    /\ query.maxDist = 15
    /\ Len(query.allStations) = 9
    /\ Len(query.stations) = 2
    /\ \E i \in DOMAIN query.stations : query.stations[i].distance = 14

\* where a returned record stands in the aggregated list
AggregationIndex(q, st) ==
    CHOOSE k \in DOMAIN q.allStations :
        /\ q.allStations[k].site_id = st.site_id
        /\ q.allStations[k].retailer = st.retailer

\* the order a finished query was asked for and could give
SortsByDistance(q) ==
    /\ (Given(q.request.lat) /\ Given(q.request.lng)) \/ q.postcodeLocation.found
    /\ sortByOf(q.request) = "distance"

SortsByPrice(q) ==
    ~SortsByDistance(q) /\ q.request.fuelType # "" /\ sortByOf(q.request) = "price"

SortsByRetailer(q) ==
    ~SortsByDistance(q) /\ ~SortsByPrice(q) /\ sortByOf(q.request) = "retailer"

Answered(q) == q.pc = "done" /\ ~q.message

\* C21: with a fuel type and sortBy = price the records come out in
\* non-decreasing order of the price of that fuel, and records of the same
\* price in the order they were aggregated in; records of the same retailer
\* under sortBy = retailer and of the same distance under sortBy = distance
\* keep their aggregation order as well.
C21_SortIsOrderedAndStable ==
    Answered(query) =>
        \A i, j \in DOMAIN query.stations :
            i < j =>
                LET a == query.stations[i]
                    b == query.stations[j]
                    f == query.request.fuelType
                    before == AggregationIndex(query, a) < AggregationIndex(query, b)
                IN  /\ SortsByPrice(query) =>
                          /\ a.prices[f] <= b.prices[f]
                          /\ a.prices[f] = b.prices[f] => before
                    /\ SortsByRetailer(query) =>
                          /\ RetailerKey(a) <= RetailerKey(b)
                          /\ a.retailer = b.retailer => before
                    /\ SortsByDistance(query) =>
                          /\ a.distance <= b.distance
                          /\ a.distance = b.distance => before

\* seven E10 stations aggregated as 14090, 13500, 13500, 13990, 14090, 14090, 14090 come
\* out by price, the two at 13500 and the four at 14090 in their aggregation order
C21_Witness ==
    /\ Answered(query)
    /\ query.request.fuelType = "E10"
    /\ query.request.sortBy = "price"
    /\ Len(query.stations) = 7
    /\ query.allStations[1].prices.E10 = 14090
    /\ query.allStations[2].prices.E10 = 13500
    /\ [i \in 1..7 |-> query.stations[i].prices.E10]
         = <<13500, 13500, 13990, 14090, 14090, 14090, 14090>>
    /\ [i \in 1..7 |-> AggregationIndex(query, query.stations[i])] = <<2, 3, 4, 1, 5, 6, 9>>

PositiveLimit(p) == p \notin {Null, Empty, NaN} /\ p > 0

\* C23: a query with a positive limit answers the first limit records of its
\* filtered and sorted list, or all of them if there are fewer; with a limit
\* that is absent, zero, negative or no number it answers the whole list.
C23_LimitTakesPrefix ==
    Answered(query) =>
        LET n == query.request.limit
            full == query.sorted
        IN  IF PositiveLimit(n)
            THEN /\ Len(query.stations) = IF n < Len(full) THEN n ELSE Len(full)
                 /\ \A i \in DOMAIN query.stations : query.stations[i] = full[i]
            ELSE query.stations = full

\* limit = 2 on seven E10 stations sorted by price: the two cheapest are answered
C23_Witness ==
    /\ Answered(query)
    /\ query.request.limit = 2
    /\ query.request.sortBy = "price"
    /\ Len(query.sorted) = 7
    /\ query.stations = SubSeq(query.sorted, 1, 2)
    /\ query.stations[2].prices.E10 = 13500

\* a negative limit and one that is no number leave the list whole
C23_WholeListWitness ==
    /\ Answered(query)
    /\ query.request.limit \in {NaN, -7}
    /\ Len(query.sorted) = 7
    /\ query.stations = query.sorted

FuelSet == {"E10", "E5", "B7", "SDV"}

\* the prices of a fuel that the answered records carry and that are positive
ReturnedPrices(q, fuel) ==
    LET Counts(st) == fuel \in DOMAIN st.prices /\ st.prices[fuel] > 0
        with == SelectSeq(q.stations, Counts)
    IN  [i \in DOMAIN with |-> with[i].prices[fuel]]

\* the entries of priceStats are those of the fuels with a positive price among
\* the answered records, with their number, their smallest and their largest
StatsOverReturned(q) ==
    /\ DOMAIN q.priceStats \subseteq FuelSet
    /\ \A fuel \in FuelSet :
          LET prices == ReturnedPrices(q, fuel)
          IN  /\ (fuel \in DOMAIN q.priceStats) <=> (prices # << >>)
              /\ fuel \in DOMAIN q.priceStats =>
                    /\ q.priceStats[fuel].count = Len(prices)
                    /\ q.priceStats[fuel].min \in Range(prices)
                    /\ q.priceStats[fuel].max \in Range(prices)
                    /\ \A x \in Range(prices) :
                          q.priceStats[fuel].min <= x /\ x <= q.priceStats[fuel].max

\* C24 as stated: priceStats is computed over exactly the records answered, after
\* every filter and the limit; a fuel of E10, E5, B7, SDV has an entry if and
\* only if an answered record has a positive price for it, count is the number
\* of such records, and min <= avg <= max.
C24_StatsWithinMinMax ==
    Answered(query) =>
        /\ StatsOverReturned(query)
        /\ \A fuel \in DOMAIN query.priceStats :
              /\ query.priceStats[fuel].min <= query.priceStats[fuel].avg
              /\ query.priceStats[fuel].avg <= query.priceStats[fuel].max

\* C24, amended: priceStats is computed over exactly the records answered; a
\* fuel has an entry if and only if an answered record has a positive price for
\* it, count is the number of such records, min and max are the smallest and
\* largest of their prices, and avg is their mean rounded to a tenth of a penny:
\* it lies within 0.05p of the mean, so between min - 0.05 and max + 0.05, and
\* between min and max when min and max are whole tenths.
C24_StatsRoundedAverage ==
    Answered(query) =>
        /\ StatsOverReturned(query)
        /\ \A fuel \in DOMAIN query.priceStats :
              LET st == query.priceStats[fuel]
                  sum == SumOf(ReturnedPrices(query, fuel))
              IN  /\ st.avg % 10 = 0
                  /\ 2 * Abs(st.avg * st.count - sum) <= 10 * st.count
                  /\ st.min - 5 <= st.avg /\ st.avg <= st.max + 5
                  /\ (st.min % 10 = 0 /\ st.max % 10 = 0) =>
                        (st.min <= st.avg /\ st.avg <= st.max)

\* a limit of 2 cut seven stations down to the two at 135.0p, one of which sells
\* B7 as well: E10 and B7 have entries over these two, E5 and SDV have none
C24_Witness ==
    /\ Answered(query)
    /\ query.request.limit = 2
    /\ Len(query.sorted) = 7
    /\ DOMAIN query.priceStats = {"E10", "B7"}
    /\ query.priceStats["E10"] = [min |-> 13500, max |-> 13500, avg |-> 13500, count |-> 2]
    /\ query.priceStats["B7"].count = 1
    /\ \E i \in DOMAIN query.sorted : query.sorted[i].prices.E10 = 13990

\* one answered record sells E5, at 149.99p: avg is 150.0p, above max
C24_RoundingWitness ==
    /\ Answered(query)
    /\ "E5" \in DOMAIN query.priceStats
    /\ query.priceStats["E5"] = [min |-> 14999, max |-> 14999, avg |-> 15000, count |-> 1]

\* C25: a query whose lat or lng is given and is no number is refused with an
\* error: it does not end with the answer of a successful query.
C25_NonNumericCoordinateRejected ==
    (query.pc = "done" /\ (query.request.lat = NaN \/ query.request.lng = NaN)) =>
        query.status # 200

\* what such a query answers: nothing when both coordinates are given, and the
\* unfiltered list when only the one that is no number is given
C25_AnsweredAsSuccess ==
    (Answered(query) /\ (query.request.lat = NaN \/ query.request.lng = NaN)) =>
        /\ query.status = 200
        /\ (Given(query.request.lat) /\ Given(query.request.lng)) => query.stations = << >>
        /\ (~Given(query.request.lat) /\ query.request.postcode = << >>) =>
              query.stations = query.fueled

\* the answered records are restricted by the postcode asked for: each lies within
\* the radius of the geocoded postcode, or starts with the postcode asked for
RestrictedByPostcode(q) ==
    \A i \in DOMAIN q.stations :
        LET st == q.stations[i]
        IN  IF q.postcodeLocation.found
            THEN "distance" \in DOMAIN st /\ Le(st.distance, q.maxDist)
            ELSE startsWith(StripSpaces(toLowerCase(st.postcode)),
                            StripSpaces(toLowerCase(q.request.postcode)))

\* C30: a query with a postcode and without both of lat and lng answers only
\* records restricted by the postcode, by distance from the geocoded postcode
\* or by the prefix match, also when exactly one of lat and lng is given.
C30_PostcodeNeverDropped ==
    (Answered(query) /\ query.request.postcode # << >>
        /\ ~(Given(query.request.lat) /\ Given(query.request.lng))) =>
        /\ query.answer # NoAnswer
        /\ RestrictedByPostcode(query)

\* the same for a query with a postcode and neither lat nor lng
C30_PostcodeAppliedWithoutCoordinates ==
    (Answered(query) /\ query.request.postcode # << >>
        /\ ~Given(query.request.lat) /\ ~Given(query.request.lng)) =>
        /\ query.answer # NoAnswer
        /\ RestrictedByPostcode(query)

\* what a query with a postcode and exactly one of lat and lng answers: the list
\* its fuel filter left, the geocoder never asked
C30_PostcodeIgnoredWithOneCoordinate ==
    (Answered(query) /\ query.request.postcode # << >>
        /\ Given(query.request.lat) # Given(query.request.lng)) =>
        /\ query.answer = NoAnswer
        /\ query.sorted = query.fueled

----------------------------------------------------------------------------
(* C26: validation of an upstream payload *)

\* the station carries a site_id and a prices object
WellFormedStation(st) ==
    /\ "site_id" \in DOMAIN st /\ st.site_id # Absent
    /\ "prices" \in DOMAIN st

WellFormedPayload(data) == \A i \in DOMAIN data.stations : WellFormedStation(data.stations[i])

\* C26: a payload is rejected, with a failure result and nothing persisted, when one
\* of its stations lacks site_id or prices: every success result and every current
\* record holds well-formed stations only
C26_MalformedStationRejected ==
    /\ \A c \in Cycles : \A i \in DOMAIN results[c] :
          results[c][i].success => WellFormedPayload(results[c][i].data)
    /\ \A s \in DOMAIN current : current[s].exists => WellFormedPayload(current[s].data)

\* the part of C26 the code does implement: a payload without a stations array gives
\* a failure result carrying the validation message, and its retailer is not written
C26_MissingStationsRejected ==
    \A c \in Cycles : \A i \in DOMAIN results[c] :
        (results[c][i].error = "Invalid data format: missing stations array")
            => /\ ~results[c][i].success
               /\ obs[c][results[c][i].retailer].put = "none"

\* a payload without a stations array was answered by a failure in a collected cycle
C26_MissingStationsSeen ==
    \E c \in Cycles : \E i \in DOMAIN results[c] :
        /\ pc[c] \in {"save", "done"}
        /\ results[c][i].error = "Invalid data format: missing stations array"

----------------------------------------------------------------------------
(* C27: /api/save and its bearer token *)

\* the caller sent Authorization: Bearer <CRON_SECRET>
CarriesValidToken ==
    env.cronSecret # "" /\ env.caller.authorization = Bearer(env.cronSecret)

\* the cycle was answered 401 and did nothing else
AnsweredUnauthorized(c) ==
    /\ pc[c] = "done"
    /\ response[c].status = 401
    /\ obs[c] = [n \in EnabledNames |-> NoObs]

\* no fetch was made and no file of the store was written
NothingFetchedOrWritten ==
    /\ \A c \in Cycles : pc[c] \in {"idle", "done"} /\ results[c] = << >>
    /\ \A c \in Cycles : \A i \in DOMAIN fetched[c] : fetched[c][i] = Pending
    /\ \A s \in DOMAIN current : ~current[s].exists
    /\ archive = {}

\* C27: a request to /api/save, POST or GET, that does not carry the valid
\* Authorization: Bearer <CRON_SECRET> header is answered 401, and no upstream fetch
\* and no store write happens for it
C27_SaveRequiresToken ==
    ~CarriesValidToken =>
        /\ NothingFetchedOrWritten
        /\ \A c \in Cycles : pc[c] # "idle" => AnsweredUnauthorized(c)

\* what the code does: the header is compared only when CRON_SECRET is set; then a
\* POST with another header, and every GET, is answered 401 and does nothing
C27_TokenCheckedWhenSecretSet ==
    (env.cronSecret # "" /\ (env.caller.method = "GET" \/ ~CarriesValidToken)) =>
        /\ NothingFetchedOrWritten
        /\ \A c \in Cycles : pc[c] # "idle" => AnsweredUnauthorized(c)

\* a POST with a wrong token was answered 401 behind a configured secret
C27_RejectedSeen ==
    /\ env.cronSecret = "s3cret" /\ env.caller.method = "POST"
    /\ env.caller.authorization = Bearer("guess")
    /\ AnsweredUnauthorized("c1")

\* without CRON_SECRET a request with no header runs a whole cycle and writes the store
C27_OpenWhenSecretUnset ==
    /\ env.cronSecret = "" /\ env.caller.authorization = NoHeader
    /\ pc["c1"] = "done" /\ response["c1"].status = 200
    /\ \E s \in DOMAIN current : current[s].exists

----------------------------------------------------------------------------
(* C28: the ranking of /api/stations/cheapest *)

\* the ranking was answered with a list
RankingAnswered == cheapest.pc = "done" /\ cheapest.status = 200 /\ ~cheapest.message

RankedFuel == fuelTypeOf(cheapest.request)

RankedLimit == parseIntOr(cheapest.request.limit, 10)

\* at most limit stations, for a limit that is a number and not negative
AtMostLimit ==
    (RankedLimit # NaN /\ RankedLimit >= 0) => Len(cheapest.stations) <= RankedLimit

\* each returned station has a positive price for the requested fuel
AllPriced == \A i \in DOMAIN cheapest.stations : HasPrice(cheapest.stations[i], RankedFuel)

\* the prices do not decrease along the list
PriceOrdered ==
    \A i, j \in DOMAIN cheapest.stations :
        i < j => cheapest.stations[i].prices[RankedFuel] <= cheapest.stations[j].prices[RankedFuel]

\* the distance the answer gives for a station is a number
Measured(st) == "distance" \in DOMAIN st /\ st.distance # NaN

\* among stations of the same price the distances do not decrease
TiesByDistance ==
    \A i, j \in DOMAIN cheapest.stations :
        (/\ i < j
         /\ cheapest.stations[i].prices[RankedFuel] = cheapest.stations[j].prices[RankedFuel]
         /\ Measured(cheapest.stations[i]) /\ Measured(cheapest.stations[j]))
            => cheapest.stations[i].distance <= cheapest.stations[j].distance

\* the station lies within max_distance of the place the caller gave
WithinMaxDistance(st) ==
    /\ "location" \in DOMAIN st
    /\ Le(roundedDistance(parseFloat(cheapest.request.lat), parseFloat(cheapest.request.lng),
                          st.location.latitude, st.location.longitude),
          maxDistanceOf(cheapest.request))

AllWithinMaxDistance ==
    (Given(cheapest.request.lat) /\ Given(cheapest.request.lng))
        => \A i \in DOMAIN cheapest.stations : WithinMaxDistance(cheapest.stations[i])

\* C28: the list /api/stations/cheapest returns has at most limit stations, each with
\* a positive price for the requested fuel, in non-decreasing order of price and,
\* among equal prices, of distance (a station at distance 0 first), and when lat and
\* lng are given every returned station lies within max_distance kilometres
C28_CheapestIsRanked ==
    RankingAnswered => AtMostLimit /\ AllPriced /\ PriceOrdered /\ TiesByDistance
              /\ AllWithinMaxDistance

\* the parts of C28 the code implements: the limit, the positive prices and the
\* order of the prices
C28_PricedAndCut == RankingAnswered => AtMostLimit /\ AllPriced /\ PriceOrdered

\* C28 for the stations the comparator and the filter treat as measured: among equal
\* prices the distances that are not 0 do not decrease and stand before the others,
\* and a returned station with a distance that is not 0 lies within max_distance
C28_RankedApartFromZero ==
    (RankingAnswered /\ cheapest.located) =>
        /\ \A i, j \in DOMAIN cheapest.stations :
             (/\ i < j
              /\ cheapest.stations[i].prices[RankedFuel]
                   = cheapest.stations[j].prices[RankedFuel]
              /\ Truthy(cheapest.stations[j].distance))
                => /\ Truthy(cheapest.stations[i].distance)
                   /\ cheapest.stations[i].distance <= cheapest.stations[j].distance
        /\ \A i \in DOMAIN cheapest.stations :
             Truthy(cheapest.stations[i].distance) => WithinMaxDistance(cheapest.stations[i])

\* a station at the caller's own place is listed after a station 48 km away that
\* has the same price
C28_ZeroDistanceLast ==
    /\ RankingAnswered /\ cheapest.located
    /\ \E i, j \in DOMAIN cheapest.stations :
          /\ i < j
          /\ cheapest.stations[i].prices[RankedFuel] = cheapest.stations[j].prices[RankedFuel]
          /\ cheapest.stations[i].distance = 3 * GridKmTenths
          /\ cheapest.stations[j].distance = 0

\* lng=0 is given with a latitude: the answer keeps a station farther than
\* max_distance and gives it no distance
C28_MeridianUnfiltered ==
    /\ RankingAnswered /\ ~cheapest.located
    /\ cheapest.request.lat = 2 /\ cheapest.request.lng = 0
    /\ \E i \in DOMAIN cheapest.stations : ~WithinMaxDistance(cheapest.stations[i])

----------------------------------------------------------------------------
(* C29: the counts the collection script reports *)

\* the current records written since the script started with an empty store
CurrentWritten == {s \in DOMAIN current : current[s].exists}

\* C29: when the script has logged its summary, the number of archived files it
\* reports is the number of archive entries written to the store in the cycle, and
\* the number of saved files it reports is the number of current records written,
\* whichever store calls failed
C29_ReportedCountsAreWrites ==
    main.pc = "exited" =>
        /\ main.archivedCount = Cardinality(archive)
        /\ main.savedCount = Cardinality(CurrentWritten)

\* the half of C29 the script implements: savedCount counts the current records
\* written, at every step of the save loop
C29_SavedCountIsWrites == main.savedCount = Cardinality(CurrentWritten)

\* what archivedCount counts: the calls of archiveData, which is never fewer than
\* the archive entries written
C29_ArchivedCountIsCalls == main.archivedCount >= Cardinality(archive)

\* a run in which a put of the current record failed and another was saved
C29_SavedSeen ==
    /\ main.pc = "exited"
    /\ main.savedCount = 1
    /\ Len(successfulResults) = 2

\* a run that reports an archived file although the archive is empty
C29_ArchiveOvercounted ==
    /\ main.pc = "exited"
    /\ main.archivedCount = 1
    /\ archive = {}

====
